---- MODULE Spec2Model ----
(***************************************************************************)
(* A model of lox.rs: the token vocabulary, the scanner, the                *)
(* recursive-descent parser with its one-item lookahead buffer, the        *)
(* tree-walking evaluator, Lox::run, the prompt and main.                  *)
(*                                                                         *)
(* The parser is driven by a source text given as a sequence of lexemes    *)
(* (the text split at token boundaries); every lexeme is classified the    *)
(* way Scanner::scan_token classifies it.  Source positions (row, col)     *)
(* play no part in parsing and are not carried by the items there; the     *)
(* character-level scanner, with its positions, is modelled on its own.    *)
(***************************************************************************)
EXTENDS Integers, Sequences, FiniteSets, TLC

VARIABLES
    source,      \* the text handed to Parser::new, as a sequence of lexemes
    pos,         \* Scanner cursor: number of lexemes the scanner has consumed
    peeked,      \* Parser.peeked, the lookahead buffer
    statements,  \* the local Vec<Stmt> of Parser::parse
    result,      \* what Parser::parse returned (or that it panicked)
    pc,          \* "parse" while the loop of Parser::parse runs, "eval", "done"
    expr,        \* the expression handed to Interpreter::evaluate
    value,       \* what Interpreter::evaluate / Lox::run returned (or a panic)
    stdout,      \* the lines written to standard output by Lox::run
    start,       \* Scanner.start of the character-level scanner
    current,     \* Scanner.current of the character-level scanner
    items,       \* what the calls of Scanner::next returned so far, each with
                 \* the indices start.index, current.index at its return
    args,        \* std::env::args() as main collects it
    stdin,       \* the lines standard input has yet to give to read_line
    file,        \* what std::fs::read_to_string gives for the script's path
    stderr,      \* the lines written to standard error
    call         \* the method of Lox that main called, with its argument

vars == <<source, pos, peeked, statements, result, pc, expr, value, stdout,
          start, current, items, args, stdin, file, stderr, call>>

\* the variables of main and the prompt, untouched elsewhere
main_vars == <<args, stdin, file, stderr, call>>

\* the scanner variables, untouched outside the character-level scanner
scanner_vars == <<start, current, items>>

(***************************************************************************)
(* Bounds of the model.                                                    *)
(***************************************************************************)
MaxLen == 3        \* longest arbitrary lexeme sequence tried as a source
ParseNodes == 5    \* most nodes of a generated well-formed expression text
MaxNodes == 4      \* most nodes of an expression handed to the evaluator
RunNodes == 3      \* most nodes of the expression of a statement that is run
MaxChars == 4      \* longest source handed to the character-level scanner
MaxEnds == 2       \* most calls of Scanner::next that return None
MaxLines == 3      \* most lines standard input gives
MaxArgs == 3       \* most strings in std::env::args()

(***************************************************************************)
(* Token model (token.rs).                                                 *)
(***************************************************************************)
Structures == {"LeftParen", "RightParen", "LeftBrace", "RightBrace",
               "Comma", "Dot", "SemiColon"}

Operators == {"Minus", "Plus", "Slash", "Star", "Bang", "BangEqual", "Equal",
              "EqualEqual", "Greater", "GreaterEqual", "Less", "LessEqual",
              "And", "Or"}

TokStructure(st) == [k |-> "Structure", st |-> st]
TokOperator(op) == [k |-> "Operator", op |-> op]
TokKeyword(kw) == [k |-> "Keyword", kw |-> kw]
TokLiteral(lit) == [k |-> "Literal", lit |-> lit]
TokNumber(n) == [k |-> "Number", n |-> n]
TokString(s) == [k |-> "String", s |-> s]
TokIdentifier(id) == [k |-> "Identifier", id |-> id]

(***************************************************************************)
(* f64, as far as the model needs it: a sign, and a magnitude num/den in   *)
(* lowest terms.  den = 0 is an infinity (num = 1) or NaN (num = 0).       *)
(* Zero is signed.  Every value built from the literals 0 and 1 with fewer *)
(* than seven nodes is a dyadic rational, so no rounding is lost.          *)
(***************************************************************************)
RECURSIVE Gcd(_, _)
Gcd(a, b) == IF b = 0 THEN a ELSE Gcd(b, a % b)

F64(sign, num, den) ==
    IF num = 0 /\ den = 0 THEN [sign |-> 1, num |-> 0, den |-> 0]
    ELSE LET g == Gcd(num, den)
         IN  [sign |-> sign, num |-> num \div g, den |-> den \div g]

F64FromInt(i) == IF i < 0 THEN F64(-1, -i, 1) ELSE F64(1, i, 1)
NaN == F64(1, 0, 0)
IsNaN(a) == a.num = 0 /\ a.den = 0
IsInf(a) == a.num # 0 /\ a.den = 0
IsZero(a) == a.num = 0 /\ a.den # 0

(***************************************************************************)
(* Scanner, lexeme by lexeme (scanner.rs).                                 *)
(***************************************************************************)
ScanSymbol ==
    [c \in {"(", ")", "{", "}", ",", ".", ";", "-", "+", "*", "!", "!=",
            "=", "==", "<", "<=", ">", ">=", "/"} |->
       CASE c = "(" -> TokStructure("LeftParen")
         [] c = ")" -> TokStructure("RightParen")
         [] c = "{" -> TokStructure("LeftBrace")
         [] c = "}" -> TokStructure("RightBrace")
         [] c = "," -> TokStructure("Comma")
         [] c = "." -> TokStructure("Dot")
         [] c = ";" -> TokStructure("SemiColon")
         [] c = "-" -> TokOperator("Minus")
         [] c = "+" -> TokOperator("Plus")
         [] c = "*" -> TokOperator("Star")
         [] c = "!=" -> TokOperator("BangEqual")
         [] c = "!" -> TokOperator("Bang")
         [] c = "==" -> TokOperator("EqualEqual")
         [] c = "=" -> TokOperator("Equal")
         [] c = "<=" -> TokOperator("LessEqual")
         [] c = "<" -> TokOperator("Less")
         [] c = ">=" -> TokOperator("GreaterEqual")
         [] c = ">" -> TokOperator("Greater")
         [] c = "/" -> TokOperator("Slash")]

\* the reserved spellings matched in Scanner::identifier
ReservedWords == {"and", "or", "class", "else", "false", "fun", "for", "if",
                  "nil", "print", "return", "super", "this", "true", "var",
                  "while"}

IdentifierLexemes == {"x"}
NumberLexemes == {"0", "1"}
StringLexemes == {"\"s\""}

Tok(kind) == [tag |-> "Tok", kind |-> kind]
LexErr(e) == [tag |-> "LexErr", err |-> e]
NoItem == [tag |-> "None"]

UnexpectedChar(c) == [e |-> "UnexpectedChar", c |-> c]

identifier(token) ==
    CASE token = "and" -> Tok(TokOperator("And"))
      [] token = "or" -> Tok(TokOperator("Or"))
      [] token = "class" -> Tok(TokKeyword("Class"))
      [] token = "else" -> Tok(TokKeyword("Else"))
      [] token = "false" -> Tok(TokKeyword("False"))
      [] token = "fun" -> Tok(TokKeyword("Fun"))
      [] token = "for" -> Tok(TokKeyword("For"))
      [] token = "if" -> Tok(TokKeyword("If"))
      [] token = "nil" -> Tok(TokKeyword("Nil"))
      [] token = "print" -> Tok(TokKeyword("Print"))
      [] token = "return" -> Tok(TokKeyword("Return"))
      [] token = "super" -> Tok(TokKeyword("Super"))
      [] token = "this" -> Tok(TokKeyword("This"))
      [] token = "true" -> Tok(TokKeyword("True"))
      [] token = "var" -> Tok(TokKeyword("Var"))
      [] token = "while" -> Tok(TokKeyword("While"))
      [] OTHER -> Tok(TokIdentifier(token))

\* sub_str().parse() of a digit lexeme
number(lexeme) ==
    CASE lexeme = "0" -> Tok(TokNumber(F64FromInt(0)))
      [] lexeme = "1" -> Tok(TokNumber(F64FromInt(1)))

\* the lexeme without its two quotes
string(lexeme) ==
    CASE lexeme = "\"s\"" -> Tok(TokString("s"))

scan_token(lexeme) ==
    CASE lexeme \in DOMAIN ScanSymbol -> Tok(ScanSymbol[lexeme])
      [] lexeme \in StringLexemes -> string(lexeme)
      [] lexeme \in NumberLexemes -> number(lexeme)
      [] lexeme \in ReservedWords \cup IdentifierLexemes -> identifier(lexeme)
      [] OTHER -> LexErr(UnexpectedChar(lexeme))

\* Scanner::next with the cursor at p: the item, None at the end of the text
ScannerNext(p) == IF p >= Len(source) THEN NoItem ELSE scan_token(source[p + 1])
ScannerPos(p) == IF p >= Len(source) THEN p ELSE p + 1

(***************************************************************************)
(* Scanner, character by character (scanner.rs).  Here `source` is a       *)
(* sequence of one-character strings, a scanner state sc is [start,        *)
(* current], and scan_token gives the new state with the item returned.    *)
(* All characters of the model are ASCII, so a byte index is a character   *)
(* count.                                                                  *)
(***************************************************************************)
MakePos(index, row, col) == [index |-> index, row |-> row, col |-> col]
NoChar == ""

\* the letters of the model's sources are lower-case
Letters == {"a", "b", "c", "d", "e", "f", "g", "h", "i", "j", "k", "l", "m",
            "n", "o", "p", "q", "r", "s", "t", "u", "v", "w", "x", "y", "z"}
DigitChars == {"0", "1", "2", "3", "4", "5", "6", "7", "8", "9"}
Whitespace == {" ", "\r", "\t", "\n"}

TokenMeta(p) == [row |-> p.row, col |-> p.col]
Token(kind, meta) == [tag |-> "Tok", kind |-> kind, meta |-> meta]
UnexpectedCharAt(c, row, col) ==
    [e |-> "UnexpectedChar", c |-> c, row |-> row, col |-> col]
UnterminatedString(row, col) ==
    [e |-> "UnterminatedString", row |-> row, col |-> col]

look_ahead_nth(sc, n) ==
    IF sc.current.index + n < Len(source) THEN source[sc.current.index + n + 1]
    ELSE NoChar

look_ahead(sc) == look_ahead_nth(sc, 0)

\* the cursor moved over the character c
Moved(p, c) ==
    IF c = "\n" THEN MakePos(p.index + 1, p.row + 1, 1)
    ELSE MakePos(p.index + 1, p.row, p.col + 1)

\* Scanner::advance, not counting the row of a newline
Scanner_advance_same_row(sc) ==
    IF look_ahead(sc) = NoChar THEN [sc |-> sc, c |-> NoChar]
    ELSE [sc |-> [sc EXCEPT !.current =
                    IF look_ahead(sc) = "\n"
                    THEN MakePos(sc.current.index + 1, sc.current.row, 1)
                    ELSE Moved(sc.current, look_ahead(sc))],
          c |-> look_ahead(sc)]

Scanner_advance(sc) ==
    IF look_ahead(sc) = NoChar THEN [sc |-> sc, c |-> NoChar]
    ELSE [sc |-> [sc EXCEPT !.current = Moved(sc.current, look_ahead(sc))],
          c |-> look_ahead(sc)]

\* Scanner::restart, leaving start where it was
restart_keeps_start(sc) ==
    IF look_ahead(sc) = NoChar THEN [sc |-> sc, c |-> NoChar]
    ELSE [sc |-> [sc EXCEPT !.current = Moved(sc.current, look_ahead(sc))],
          c |-> look_ahead(sc)]

restart(sc) ==
    IF look_ahead(sc) = NoChar THEN [sc |-> sc, c |-> NoChar]
    ELSE [sc |-> [start |-> sc.current,
                  current |-> Moved(sc.current, look_ahead(sc))],
          c |-> look_ahead(sc)]

\* Scanner::matches that never finds the expected character
Scanner_matches_never(sc, expected) == [sc |-> sc, b |-> FALSE]

Scanner_matches(sc, expected) ==
    IF look_ahead(sc) = expected
    THEN [sc |-> Scanner_advance(sc).sc, b |-> TRUE]
    ELSE [sc |-> sc, b |-> FALSE]

sub_str(sc) == SubSeq(source, sc.start.index + 1, sc.current.index)

\* the &str made of a run of characters
RECURSIVE Join(_)
Join(cs) == IF cs = <<>> THEN "" ELSE Head(cs) \o Join(Tail(cs))

Returned_item(sc, item) == [sc |-> sc, item |-> item]

\* the loop of Scanner::string, up to the closing quote or the end of input
RECURSIVE string_loop(_)
string_loop(sc) ==
    IF look_ahead(sc) \in {NoChar, "\""} THEN sc
    ELSE string_loop(Scanner_advance(sc).sc)

\* Scanner::string, reporting an unterminated string where the input ends
Scanner_string_reports_end(sc) ==
    IF look_ahead(string_loop(sc)) = NoChar
    THEN Returned_item(string_loop(sc),
                       LexErr(UnterminatedString(string_loop(sc).current.row,
                                                 string_loop(sc).current.col)))
    ELSE LET s1 == Scanner_advance(string_loop(sc)).sc
         IN  Returned_item(s1,
               Token(TokString(Join(SubSeq(sub_str(s1), 2,
                                           Len(sub_str(s1)) - 1))),
                     TokenMeta(s1.start)))

\* Scanner::string: the loop, then the closing quote and the token
Scanner_string(sc) ==
    IF look_ahead(string_loop(sc)) = NoChar
    THEN Returned_item(string_loop(sc),
                       LexErr(UnterminatedString(sc.start.row, sc.start.col)))
    ELSE LET s1 == Scanner_advance(string_loop(sc)).sc
         IN  Returned_item(s1,
               Token(TokString(Join(SubSeq(sub_str(s1), 2,
                                           Len(sub_str(s1)) - 1))),
                     TokenMeta(s1.start)))

\* while matches!(self.look_ahead(), Some('0'..='9')) { self.advance(); }
RECURSIVE digits_loop(_)
digits_loop(sc) ==
    IF look_ahead(sc) \in DigitChars THEN digits_loop(Scanner_advance(sc).sc)
    ELSE sc

Digits == <<"0", "1", "2", "3", "4", "5", "6", "7", "8", "9">>
DigitValue(c) == CHOOSE d \in 0..9 : Digits[d + 1] = c

RECURSIVE Pow10(_)
Pow10(k) == IF k = 0 THEN 1 ELSE 10 * Pow10(k - 1)

\* the digits of a lexeme read as one decimal integer, the `.` left out
RECURSIVE DecimalDigits(_)
DecimalDigits(cs) ==
    CASE cs = <<>> -> 0
      [] cs[Len(cs)] = "." -> DecimalDigits(SubSeq(cs, 1, Len(cs) - 1))
      [] OTHER -> 10 * DecimalDigits(SubSeq(cs, 1, Len(cs) - 1))
                    + DigitValue(cs[Len(cs)])

\* str::parse::<f64> of a lexeme digits[.digits]
ParseF64(cs) ==
    LET dot == {i \in 1..Len(cs) : cs[i] = "."}
    IN  F64(1, DecimalDigits(cs),
            IF dot = {} THEN 1 ELSE Pow10(Len(cs) - (CHOOSE i \in dot : TRUE)))

\* Scanner::number taking a `.` whatever follows it
Scanner_number_trailing_dot(sc) ==
    LET s1 == digits_loop(sc)
        s2 == IF look_ahead(s1) = "."
              THEN digits_loop(Scanner_advance(s1).sc)
              ELSE s1
    IN  Returned_item(s2, Token(TokNumber(ParseF64(sub_str(s2))),
                                TokenMeta(s2.start)))

Scanner_number(sc) ==
    LET s1 == digits_loop(sc)
        s2 == IF look_ahead(s1) = "." /\ look_ahead_nth(s1, 1) \in DigitChars
              THEN digits_loop(Scanner_advance(s1).sc)
              ELSE s1
    IN  Returned_item(s2, Token(TokNumber(ParseF64(sub_str(s2))),
                                TokenMeta(s2.start)))

\* char::is_alphanumeric on the characters of the model
is_alphanumeric(c) == c \in Letters \cup DigitChars

RECURSIVE identifier_loop(_)
identifier_loop(sc) ==
    IF look_ahead(sc) # NoChar /\ is_alphanumeric(look_ahead(sc))
    THEN identifier_loop(Scanner_advance(sc).sc)
    ELSE sc

Scanner_identifier(sc) ==
    LET s1 == identifier_loop(sc)
    IN  Returned_item(s1, Token(identifier(Join(sub_str(s1))).kind,
                                TokenMeta(s1.start)))

\* while self.look_ahead()? != '\n' { self.advance(); }, up to the newline or
\* the end of input
\* the comment loop skipping nothing
comment_loop_skips_nothing(sc) == sc

RECURSIVE comment_loop(_)
comment_loop(sc) ==
    IF look_ahead(sc) \in {NoChar, "\n"} THEN sc
    ELSE comment_loop(Scanner_advance(sc).sc)

\* the loop of Scanner::scan_token with the character c in hand
RECURSIVE scan_loop(_, _)
scan_loop(sc, c) ==
    CASE c \in {"(", ")", "{", "}", ",", ".", ";", "-", "+", "*"} ->
           Returned_item(sc, Token(ScanSymbol[c], TokenMeta(sc.start)))
      [] c \in {"!", "=", "<", ">"} ->
           LET m == Scanner_matches(sc, "=")
           IN  Returned_item(m.sc,
                 Token(ScanSymbol[IF m.b THEN c \o "=" ELSE c],
                       TokenMeta(m.sc.start)))
      [] c = "/" ->
           IF Scanner_matches(sc, "/").b
           THEN LET skipped == comment_loop(Scanner_matches(sc, "/").sc)
                IN  IF look_ahead(skipped) = NoChar
                    THEN Returned_item(skipped, NoItem)
                    ELSE scan_loop(restart(skipped).sc, restart(skipped).c)
           ELSE Returned_item(sc, Token(ScanSymbol["/"], TokenMeta(sc.start)))
      [] c \in Whitespace ->
           IF restart(sc).c = NoChar THEN Returned_item(sc, NoItem)
           ELSE scan_loop(restart(sc).sc, restart(sc).c)
      [] c = "\"" -> Scanner_string(sc)
      [] c \in DigitChars -> Scanner_number(sc)
      [] c \in Letters \cup {"_"} -> Scanner_identifier(sc)
      [] OTHER ->
           Returned_item(sc, LexErr(UnexpectedCharAt(c, sc.current.row,
                                                     sc.current.col)))

\* Scanner::scan_token looking at its first character without taking it
Scanner_scan_token_no_advance(sc) ==
    LET s0 == [sc EXCEPT !.start = sc.current]
    IN  IF look_ahead(s0) = NoChar THEN Returned_item(s0, NoItem)
        ELSE scan_loop(s0, look_ahead(s0))

\* Scanner::scan_token, which is Scanner::next
Scanner_scan_token(sc) ==
    LET s0 == [sc EXCEPT !.start = sc.current]
    IN  IF Scanner_advance(s0).c = NoChar THEN Returned_item(s0, NoItem)
        ELSE scan_loop(Scanner_advance(s0).sc, Scanner_advance(s0).c)

(***************************************************************************)
(* AST model (syntax.rs).                                                  *)
(***************************************************************************)
BinOps == {"Eq", "Ne", "Lt", "Gt", "Le", "Ge", "Add", "Sub", "Mul", "Div",
           "And", "Or"}
UnOps == {"Neg", "Not"}

from_binary(left, operator, right) ==
    [type |-> "Binary", left |-> left, operator |-> operator, right |-> right]
from_grouping(expression) == [type |-> "Grouping", expression |-> expression]
from_unary(operator, expression) ==
    [type |-> "Unary", operator |-> operator, expression |-> expression]
from_number(n) == [type |-> "Literal", lit |-> "Number", n |-> n]
from_string(s) == [type |-> "Literal", lit |-> "String", s |-> s]
from_ident(id) == [type |-> "Literal", lit |-> "Identifier", id |-> id]
from_bool(b) == [type |-> "Literal", lit |-> IF b THEN "True" ELSE "False"]
from_nil == [type |-> "Literal", lit |-> "Nil"]

StmtExpr(e) == [stmt |-> "Expr", expression |-> e]
StmtPrint(e) == [stmt |-> "Print", expression |-> e]

(***************************************************************************)
(* Parser errors (error.rs) and the outcome of a parser method: Ok with a  *)
(* value and the parser state it leaves, Err with an error, or a panic.    *)
(***************************************************************************)
LexicalError(e) == [e |-> "LexicalError", lex |-> e]
Unsupported == [e |-> "Unsupported"]
BadOperator(op) == [e |-> "BadOperator", op |-> op]
BadStructure(st) == [e |-> "BadStructure", st |-> st]
EndOfFile == [e |-> "EndOfFile"]
EndOfFileConsume == [e |-> "EndOfFileConsume"]

Ok(val, ps) == [tag |-> "Ok", val |-> val, ps |-> ps]
Err(e) == [tag |-> "Err", err |-> e]
Panic == [tag |-> "Panic"]

\* Option<Option<Result<Token, LexicalError>>>
Empty == [tag |-> "Empty"]
Full(item) == [tag |-> "Full", item |-> item]

\* the `peek` argument of the grammar methods when it is None
NoPeek == [k |-> "None"]

(***************************************************************************)
(* The `?` of the source: Try(r, f) goes on with f on the state and value  *)
(* of an Ok outcome, and returns any other outcome (Err, panic) as it is.  *)
(***************************************************************************)
Try(r, f(_, _)) == IF r.tag = "Ok" THEN f(r.ps, r.val) ELSE r

(***************************************************************************)
(* Lookahead (parser.rs, peek / advance / consume / matches).  A parser    *)
(* state ps is [pos, peeked].                                              *)
(***************************************************************************)
peek(ps) ==
    IF ps.peeked.tag = "Full"
    THEN [ps |-> ps, item |-> ps.peeked.item]
    ELSE [ps |-> [pos |-> ScannerPos(ps.pos),
                  peeked |-> Full(ScannerNext(ps.pos))],
          item |-> ScannerNext(ps.pos)]

\* Parser::advance reading the scanner whatever the buffer holds
advance_rereads(ps) ==
    [ps |-> [pos |-> ScannerPos(ps.pos), peeked |-> Empty],
     item |-> ScannerNext(ps.pos)]

advance(ps) ==
    IF ps.peeked.tag = "Full"
    THEN [ps |-> [ps EXCEPT !.peeked = Empty], item |-> ps.peeked.item]
    ELSE [ps |-> [ps EXCEPT !.pos = ScannerPos(ps.pos)],
          item |-> ScannerNext(ps.pos)]

\* what `?` makes of a peeked or advanced item: Ok of the token's kind, Ok of
\* NoPeek at the end of the text, Err of a lexical error
Item(a) ==
    CASE a.item.tag = "LexErr" -> Err(LexicalError(a.item.err))
      [] a.item.tag = "Tok" -> Ok(a.item.kind, a.ps)
      [] a.item.tag = "None" -> Ok(NoPeek, a.ps)

consume(ps, token_kind) ==
    Try(Item(advance(ps)),
        LAMBDA p, kind : IF kind = NoPeek THEN Err(EndOfFileConsume)
                         ELSE Ok(token_kind = kind, p))

\* self.advance()?.unwrap()
advance_unwrap(ps) ==
    Try(Item(advance(ps)),
        LAMBDA p, kind : IF kind = NoPeek THEN Panic ELSE Ok(kind, p))

print_match(t) == IF t = TokKeyword("Print") THEN "Some" ELSE "None"
var_match(t) == IF t = TokKeyword("Var") THEN "Some" ELSE "None"

logical_op(t) ==
    CASE t = TokOperator("And") -> "And"
      [] t = TokOperator("Or") -> "Or"
      [] OTHER -> "None"

eq_op(t) ==
    CASE t = TokOperator("BangEqual") -> "Ne"
      [] t = TokOperator("EqualEqual") -> "Eq"
      [] OTHER -> "None"

cmp_op(t) ==
    IF t.k = "Operator"
    THEN CASE t.op = "Greater" -> "Gt"
           [] t.op = "GreaterEqual" -> "Ge"
           [] t.op = "Less" -> "Lt"
           [] t.op = "LessEqual" -> "Le"
           [] OTHER -> "None"
    ELSE "None"

\* the predicate passed to matches is named by a string; pred(kind) is its call
pred_call(pred, t) ==
    CASE pred = "print_match" -> print_match(t)
      [] pred = "var_match" -> var_match(t)
      [] pred = "logical_op" -> logical_op(t)
      [] pred = "eq_op" -> eq_op(t)
      [] pred = "cmp_op" -> cmp_op(t)

matches(ps, pred) ==
    Try(Item(peek(ps)),
        LAMBDA p, kind : IF kind # NoPeek /\ pred_call(pred, kind) # "None"
                         THEN Ok(pred_call(pred, kind), advance(p).ps)
                         ELSE Ok("None", p))

(***************************************************************************)
(* The grammar methods (parser.rs).  Each loop of the source is the        *)
(* recursive operator named after its method with the suffix _loop.  The   *)
(* `peek` argument is NoPeek for the source's None.                        *)
(***************************************************************************)
RECURSIVE expression(_, _), logical(_, _), logical_loop(_, _),
          equality(_, _), equality_loop(_, _),
          comparison(_, _), comparison_loop(_, _),
          term(_, _), term_loop(_, _), term_right(_, _, _),
          factor(_, _), factor_loop(_, _), factor_right(_, _, _),
          unary(_, _), primary(_, _)

\* primary, not checking what consume found in the place of `)`
primary_unchecked_paren(ps, tok) ==
    CASE tok.k = "Literal" ->
           (CASE tok.lit = "True" -> Ok(from_bool(TRUE), ps)
              [] tok.lit = "False" -> Ok(from_bool(FALSE), ps)
              [] tok.lit = "Nil" -> Ok(from_nil, ps))
      [] tok.k = "Structure" ->
           IF tok.st = "LeftParen"
           THEN Try(expression(ps, NoPeek),
                    LAMBDA p1, e :
                      Try(consume(p1, TokStructure("RightParen")),
                          LAMBDA p2, closed : Ok(from_grouping(e), p2)))
           ELSE Err(BadStructure(tok.st))
      [] tok.k = "Operator" -> Err(BadOperator(tok.op))
      [] tok.k = "Number" -> Ok(from_number(tok.n), ps)
      [] tok.k = "String" -> Ok(from_string(tok.s), ps)
      [] tok.k = "Identifier" -> Ok(from_ident(tok.id), ps)
      [] tok.k = "Keyword" -> Err(Unsupported)

\* primary, with the errors of the Operator and Keyword arms exchanged
primary_swapped_errors(ps, tok) ==
    CASE tok.k = "Literal" ->
           (CASE tok.lit = "True" -> Ok(from_bool(TRUE), ps)
              [] tok.lit = "False" -> Ok(from_bool(FALSE), ps)
              [] tok.lit = "Nil" -> Ok(from_nil, ps))
      [] tok.k = "Structure" ->
           IF tok.st = "LeftParen"
           THEN Try(expression(ps, NoPeek),
                    LAMBDA p1, e :
                      Try(consume(p1, TokStructure("RightParen")),
                          LAMBDA p2, closed :
                            IF ~closed THEN Err(BadStructure("None"))
                            ELSE Ok(from_grouping(e), p2)))
           ELSE Err(BadStructure(tok.st))
      [] tok.k = "Operator" -> Err(Unsupported)
      [] tok.k = "Number" -> Ok(from_number(tok.n), ps)
      [] tok.k = "String" -> Ok(from_string(tok.s), ps)
      [] tok.k = "Identifier" -> Ok(from_ident(tok.id), ps)
      [] tok.k = "Keyword" -> Err(BadOperator("None"))

primary(ps, tok) ==
    CASE tok.k = "Literal" ->
           (CASE tok.lit = "True" -> Ok(from_bool(TRUE), ps)
              [] tok.lit = "False" -> Ok(from_bool(FALSE), ps)
              [] tok.lit = "Nil" -> Ok(from_nil, ps))
      [] tok.k = "Structure" ->
           IF tok.st = "LeftParen"
           THEN Try(expression(ps, NoPeek),
                    LAMBDA p1, e :
                      Try(consume(p1, TokStructure("RightParen")),
                          LAMBDA p2, closed :
                            IF ~closed THEN Err(BadStructure("None"))
                            ELSE Ok(from_grouping(e), p2)))
           ELSE Err(BadStructure(tok.st))
      [] tok.k = "Operator" -> Err(BadOperator(tok.op))
      [] tok.k = "Number" -> Ok(from_number(tok.n), ps)
      [] tok.k = "String" -> Ok(from_string(tok.s), ps)
      [] tok.k = "Identifier" -> Ok(from_ident(tok.id), ps)
      [] tok.k = "Keyword" -> Err(Unsupported)

\* unary, taking a primary instead of a unary as the operand of `-` and `!`
unary_one_prefix(ps, tok) ==
    CASE tok = TokOperator("Minus") ->
           Try(Try(advance_unwrap(ps), primary),
               LAMBDA p, e : Ok(from_unary("Neg", e), p))
      [] tok = TokOperator("Bang") ->
           Try(Try(advance_unwrap(ps), primary),
               LAMBDA p, e : Ok(from_unary("Not", e), p))
      [] OTHER -> primary(ps, tok)

unary(ps, tok) ==
    CASE tok = TokOperator("Minus") ->
           Try(Try(advance_unwrap(ps), unary),
               LAMBDA p, e : Ok(from_unary("Neg", e), p))
      [] tok = TokOperator("Bang") ->
           Try(Try(advance_unwrap(ps), unary),
               LAMBDA p, e : Ok(from_unary("Not", e), p))
      [] OTHER -> primary(ps, tok)

factor_right(ps, e, op) ==
    Try(Try(advance_unwrap(advance(ps).ps), unary),
        LAMBDA p, right : Ok(from_binary(e, op, right), p))

factor_loop(ps, e) ==
    Try(Item(peek(ps)),
        LAMBDA p, kind :
          CASE kind = TokOperator("Slash") ->
                 Try(factor_right(p, e, "Div"), factor_loop)
            [] kind = TokOperator("Star") ->
                 Try(factor_right(p, e, "Mul"), factor_loop)
            [] OTHER -> Ok(e, p))

factor(ps, tok) == Try(unary(ps, tok), factor_loop)

\* term_right, taking a unary instead of a factor as its right operand
term_right_unary(ps, e, op) ==
    Try(Try(advance_unwrap(advance(ps).ps), unary),
        LAMBDA p, right : Ok(from_binary(e, op, right), p))

term_right(ps, e, op) ==
    Try(Try(advance_unwrap(advance(ps).ps), factor),
        LAMBDA p, right : Ok(from_binary(e, op, right), p))

term_loop(ps, e) ==
    Try(Item(peek(ps)),
        LAMBDA p, kind :
          CASE kind = TokOperator("Minus") ->
                 Try(term_right(p, e, "Sub"), term_loop)
            [] kind = TokOperator("Plus") ->
                 Try(term_right(p, e, "Add"), term_loop)
            [] OTHER -> Ok(e, p))

term(ps, pk) ==
    IF pk # NoPeek THEN Panic
    ELSE Try(Try(advance_unwrap(ps), factor), term_loop)

comparison_loop(ps, e) ==
    Try(matches(ps, "cmp_op"),
        LAMBDA p, op :
          IF op = "None" THEN Ok(e, p)
          ELSE Try(Try(term(p, NoPeek),
                       LAMBDA q, right : Ok(from_binary(e, op, right), q)),
                   comparison_loop))

comparison(ps, pk) ==
    IF pk # NoPeek THEN Panic
    ELSE Try(term(ps, NoPeek), comparison_loop)

equality_loop(ps, e) ==
    Try(matches(ps, "eq_op"),
        LAMBDA p, op :
          IF op = "None" THEN Ok(e, p)
          ELSE Try(Try(comparison(p, NoPeek),
                       LAMBDA q, right : Ok(from_binary(e, op, right), q)),
                   equality_loop))

equality(ps, pk) ==
    IF pk # NoPeek THEN Panic
    ELSE Try(comparison(ps, NoPeek), equality_loop)

logical_loop(ps, e) ==
    Try(matches(ps, "logical_op"),
        LAMBDA p, op :
          IF op = "None" THEN Ok(e, p)
          ELSE Try(Try(equality(p, NoPeek),
                       LAMBDA q, right : Ok(from_binary(e, op, right), q)),
                   logical_loop))

logical(ps, pk) ==
    IF pk # NoPeek THEN Panic
    ELSE Try(equality(ps, NoPeek), logical_loop)

expression(ps, pk) ==
    IF pk # NoPeek THEN Panic ELSE logical(ps, NoPeek)

\* todo!()
var_statement(ps) == Panic

print_statement(ps) ==
    Try(expression(ps, NoPeek), LAMBDA p, e : Ok(StmtPrint(e), p))

expression_statement(ps, pk) ==
    IF pk # NoPeek THEN Panic
    ELSE Try(expression(ps, NoPeek), LAMBDA p, e : Ok(StmtExpr(e), p))

\* the bool that consume returns is dropped by `self.consume(..)?;`
statement(ps) ==
    Try(Try(matches(ps, "var_match"),
            LAMBDA p1, is_var :
              IF is_var # "None" THEN var_statement(p1)
              ELSE Try(matches(p1, "print_match"),
                       LAMBDA p2, is_print :
                         IF is_print # "None" THEN print_statement(p2)
                         ELSE expression_statement(p2, NoPeek))),
        LAMBDA p3, stmt :
          Try(consume(p3, TokStructure("SemiColon")),
              LAMBDA p4, terminated : Ok(stmt, p4)))

(***************************************************************************)
(* Source texts.  Arbitrary texts are all lexeme sequences up to MaxLen    *)
(* over the common lexemes, the last lexeme ranging over every lexeme;     *)
(* expression texts are the well-formed statements whose expression has up *)
(* to ParseNodes nodes.                                                    *)
(***************************************************************************)
CommonLexemes == {"(", ")", ";", "-", "+", "==", "print", "var", "1",
                  "true", "false", "nil"}
Lexemes == DOMAIN ScanSymbol \cup ReservedWords \cup IdentifierLexemes
             \cup NumberLexemes \cup StringLexemes \cup {"#"}

SeqsUpTo(S, n) == UNION {[1..m -> S] : m \in 0..n}

ArbitraryTexts ==
    SeqsUpTo(CommonLexemes, MaxLen)
      \cup {p \o <<t>> : p \in SeqsUpTo(CommonLexemes, MaxLen - 1),
                         t \in Lexemes}

UnaryLexemes == {"-", "!"}
BinaryLexemes == {"*", "/", "+", "-", "<", "<=", ">", ">=", "==", "!=",
                  "and", "or"}
OperandLexemes == {"1", "x"}

RECURSIVE ExprTexts(_)
ExprTexts(n) ==
    IF n = 1 THEN {<<l>> : l \in OperandLexemes}
    ELSE {<<u>> \o e : u \in UnaryLexemes, e \in ExprTexts(n - 1)}
           \cup {<<"(">> \o e \o <<")">> : e \in ExprTexts(n - 1)}
           \cup UNION {{l \o <<op>> \o r :
                          l \in ExprTexts(i), op \in BinaryLexemes,
                          r \in ExprTexts(n - 1 - i)} : i \in 1..(n - 2)}

StatementTexts ==
    {p \o e \o <<";">> : p \in {<<>>, <<"print">>},
                         e \in UNION {ExprTexts(n) : n \in 1..ParseNodes}}

NoResult == [tag |-> "None"]
NoExpr == [type |-> "None"]
NoCall == [fn |-> "None"]

\* main has not run
NoMain ==
    /\ args = <<>>
    /\ stdin = <<>>
    /\ file = NoResult
    /\ stderr = <<>>
    /\ call = NoCall

(***************************************************************************)
(* Parser::new followed by Parser::parse, one iteration of its loop per    *)
(* step.                                                                   *)
(***************************************************************************)
Init ==
    /\ source \in ArbitraryTexts \cup StatementTexts
    /\ pos = 0
    /\ peeked = Empty
    /\ statements = <<>>
    /\ result = NoResult
    /\ pc = "parse"
    /\ expr = NoExpr
    /\ value = NoResult
    /\ stdout = <<>>
    /\ start = MakePos(0, 1, 1)
    /\ current = MakePos(0, 1, 1)
    /\ items = <<>>
    /\ NoMain

ParserState == [pos |-> pos, peeked |-> peeked]

\* one turn of `while self.peek()?.is_some() { statements.push(self.statement()?) }`:
\* Ok of a statement, Ok of NoPeek when the peek finds the end, Err, or a panic
parse_loop(ps) ==
    Try(Item(peek(ps)),
        LAMBDA p, kind : IF kind = NoPeek THEN Ok(NoPeek, p) ELSE statement(p))

Pushed(r) ==
    /\ r.tag = "Ok"
    /\ r.val # NoPeek
    /\ statements' = Append(statements, r.val)
    /\ pos' = r.ps.pos
    /\ peeked' = r.ps.peeked

Returned(r) ==
    /\ r.tag = "Ok"
    /\ r.val = NoPeek
    /\ pos' = r.ps.pos
    /\ peeked' = r.ps.peeked
    /\ result' = [tag |-> "Ok", stmts |-> statements]

Failed(r) ==
    /\ r.tag = "Err"
    /\ result' = [tag |-> "Err", err |-> r.err]

\* the statement parses: push it and go round the loop
ParseStatement ==
    /\ pc = "parse"
    /\ Pushed(parse_loop(ParserState))
    /\ UNCHANGED <<source, result, pc, expr, value, stdout,
                 scanner_vars, main_vars>>

\* the peek finds the end of the text: Ok(statements)
ParseReturn ==
    /\ pc = "parse"
    /\ Returned(parse_loop(ParserState))
    /\ pc' = "done"
    /\ UNCHANGED <<source, statements, expr, value, stdout,
                 scanner_vars, main_vars>>

\* the peek or the statement fails: `?` returns the error, the list is dropped
ParseFail ==
    /\ pc = "parse"
    /\ Failed(parse_loop(ParserState))
    /\ pc' = "done"
    /\ UNCHANGED <<source, pos, peeked, statements, expr, value, stdout,
                 scanner_vars, main_vars>>

\* the statement panics (unwrap of None, todo!())
ParseAbort ==
    /\ pc = "parse"
    /\ parse_loop(ParserState).tag = "Panic"
    /\ result' = [tag |-> "Panic"]
    /\ pc' = "done"
    /\ UNCHANGED <<source, pos, peeked, statements, expr, value, stdout,
                 scanner_vars, main_vars>>

(***************************************************************************)
(* f64 arithmetic and comparison, as used by the evaluator's closures.     *)
(***************************************************************************)
SignedNum(a) == a.sign * a.num

F64Neg(a) == IF IsNaN(a) THEN a ELSE [a EXCEPT !.sign = -a.sign]

F64Add(a, b) ==
    CASE IsNaN(a) \/ IsNaN(b) -> NaN
      [] IsInf(a) /\ IsInf(b) -> IF a.sign = b.sign THEN a ELSE NaN
      [] IsInf(a) -> a
      [] IsInf(b) -> b
      [] OTHER ->
           LET n == SignedNum(a) * b.den + SignedNum(b) * a.den
               d == a.den * b.den
           IN  CASE n = 0 -> F64(IF a.sign = -1 /\ b.sign = -1 THEN -1 ELSE 1,
                                 0, 1)
                 [] n < 0 -> F64(-1, -n, d)
                 [] n > 0 -> F64(1, n, d)

F64Sub(a, b) == F64Add(a, F64Neg(b))

F64Mul(a, b) ==
    IF IsNaN(a) \/ IsNaN(b) THEN NaN
    ELSE F64(a.sign * b.sign, a.num * b.num, a.den * b.den)

F64Div(a, b) ==
    IF IsNaN(a) \/ IsNaN(b) THEN NaN
    ELSE F64(a.sign * b.sign, a.num * b.den, a.den * b.num)

F64Eq(a, b) ==
    /\ ~IsNaN(a)
    /\ ~IsNaN(b)
    /\ \/ IsZero(a) /\ IsZero(b)
       \/ a = b

F64Lt(a, b) ==
    /\ ~IsNaN(a)
    /\ ~IsNaN(b)
    /\ IF IsInf(a) \/ IsInf(b)
       THEN \/ IsInf(a) /\ a.sign = -1 /\ ~(IsInf(b) /\ b.sign = -1)
            \/ IsInf(b) /\ b.sign = 1 /\ ~(IsInf(a) /\ a.sign = 1)
       ELSE SignedNum(a) * b.den < SignedNum(b) * a.den

F64Le(a, b) == F64Lt(a, b) \/ F64Eq(a, b)
F64Gt(a, b) == F64Lt(b, a)
F64Ge(a, b) == F64Le(b, a)

(***************************************************************************)
(* Runtime values and the evaluator (interpreter.rs).                      *)
(***************************************************************************)
ValString(s) == [type |-> "String", s |-> s]
ValNumber(n) == [type |-> "Number", n |-> n]
ValBool(b) == [type |-> "Bool", b |-> b]
ValNil == [type |-> "Nil"]

TypeError(v) == [e |-> "TypeError", val |-> v]

\* an outcome of the evaluator: Ok of a value, Err of a type error, or a panic
OkV(v) == [tag |-> "Ok", val |-> v]
TryV(r, f(_)) == IF r.tag = "Ok" THEN f(r.val) ELSE r

numeric(v) ==
    IF v.type = "Number" THEN OkV(v.n) ELSE Err(TypeError(v))

\* the closure passed to numeric_op / cmp_op is named by the operator it
\* applies; f_call(f, l, r) is its call
f_call(f, l, r) ==
    CASE f = "-" -> F64Sub(l, r)
      [] f = "/" -> F64Div(l, r)
      [] f = "*" -> F64Mul(l, r)
      [] f = ">" -> F64Gt(l, r)
      [] f = ">=" -> F64Ge(l, r)
      [] f = "<" -> F64Lt(l, r)
      [] f = "<=" -> F64Le(l, r)

\* numeric_op, converting the right operand before the left one
numeric_op_right_first(left, right, f) ==
    TryV(numeric(right),
         LAMBDA r : TryV(numeric(left),
                         LAMBDA l : OkV(ValNumber(f_call(f, l, r)))))

numeric_op(left, right, f) ==
    TryV(numeric(left),
         LAMBDA l : TryV(numeric(right),
                         LAMBDA r : OkV(ValNumber(f_call(f, l, r)))))

Interpreter_cmp_op(left, right, f) ==
    TryV(numeric(left),
         LAMBDA l : TryV(numeric(right),
                         LAMBDA r : OkV(ValBool(f_call(f, l, r)))))

\* eq, comparing values of different variants by their truthiness
eq_loose(left, right) ==
    CASE left.type = "String" /\ right.type = "String" -> left.s = right.s
      [] left.type = "Number" /\ right.type = "Number" ->
           F64Eq(left.n, right.n)
      [] left.type = "Bool" /\ right.type = "Bool" -> left.b = right.b
      [] left.type = "Nil" /\ right.type = "Nil" -> TRUE
      [] OTHER -> (left.type \in {"Nil", "Bool"} /\ right.type \in {"Nil", "Bool"})

eq(left, right) ==
    CASE left.type = "String" /\ right.type = "String" -> left.s = right.s
      [] left.type = "Number" /\ right.type = "Number" ->
           F64Eq(left.n, right.n)
      [] left.type = "Bool" /\ right.type = "Bool" -> left.b = right.b
      [] left.type = "Nil" /\ right.type = "Nil" -> TRUE
      [] OTHER -> FALSE

\* truthy, taking the number zero for false as well
truthy_zero_falsy(v) ==
    ~(v.type = "Nil" \/ (v.type = "Bool" /\ v.b = FALSE)
        \/ (v.type = "Number" /\ IsZero(v.n)))

truthy(v) == ~(v.type = "Nil" \/ (v.type = "Bool" /\ v.b = FALSE))

\* binary_operator, the type error of Add carrying the operand that mismatches
binary_operator_add_names_right(operator, left, right) ==
    CASE operator = "Sub" -> numeric_op(left, right, "-")
      [] operator = "Add" ->
           (CASE left.type = "Number" /\ right.type = "Number" ->
                   OkV(ValNumber(F64Add(left.n, right.n)))
              [] left.type = "String" /\ right.type = "String" ->
                   OkV(ValString(left.s \o right.s))
              [] left.type \in {"Number", "String"} -> Err(TypeError(right))
              [] OTHER -> Err(TypeError(left)))
      [] operator = "Div" -> numeric_op(left, right, "/")
      [] operator = "Mul" -> numeric_op(left, right, "*")
      [] operator = "Ne" -> OkV(ValBool(~eq(left, right)))
      [] operator = "Eq" -> OkV(ValBool(eq(left, right)))
      [] operator = "Gt" -> Interpreter_cmp_op(left, right, ">")
      [] operator = "Ge" -> Interpreter_cmp_op(left, right, ">=")
      [] operator = "Lt" -> Interpreter_cmp_op(left, right, "<")
      [] operator = "Le" -> Interpreter_cmp_op(left, right, "<=")
      [] operator = "And" -> OkV(ValBool(truthy(left) /\ truthy(right)))
      [] operator = "Or" -> OkV(ValBool(truthy(left) \/ truthy(right)))

\* the match on binary.operator, both operands evaluated
binary_operator(operator, left, right) ==
    CASE operator = "Sub" -> numeric_op(left, right, "-")
      [] operator = "Add" ->
           (CASE left.type = "Number" /\ right.type = "Number" ->
                   OkV(ValNumber(F64Add(left.n, right.n)))
              [] left.type = "String" /\ right.type = "String" ->
                   OkV(ValString(left.s \o right.s))
              [] OTHER -> Err(TypeError(left)))
      [] operator = "Div" -> numeric_op(left, right, "/")
      [] operator = "Mul" -> numeric_op(left, right, "*")
      [] operator = "Ne" -> OkV(ValBool(~eq(left, right)))
      [] operator = "Eq" -> OkV(ValBool(eq(left, right)))
      [] operator = "Gt" -> Interpreter_cmp_op(left, right, ">")
      [] operator = "Ge" -> Interpreter_cmp_op(left, right, ">=")
      [] operator = "Lt" -> Interpreter_cmp_op(left, right, "<")
      [] operator = "Le" -> Interpreter_cmp_op(left, right, "<=")
      [] operator = "And" -> OkV(ValBool(truthy(left) /\ truthy(right)))
      [] operator = "Or" -> OkV(ValBool(truthy(left) \/ truthy(right)))

RECURSIVE evaluate(_), visit_binary(_), visit_group(_), visit_unary(_)

\* visit_binary, not evaluating the right operand of `and` / `or` when the left
\* operand decides
visit_binary_short_circuit(binary) ==
    TryV(evaluate(binary.left),
         LAMBDA left :
           IF \/ binary.operator = "And" /\ ~truthy(left)
              \/ binary.operator = "Or" /\ truthy(left)
           THEN OkV(ValBool(truthy(left)))
           ELSE TryV(evaluate(binary.right),
                     LAMBDA right :
                       binary_operator(binary.operator, left, right)))

\* visit_binary, evaluating the right operand before the left one
visit_binary_right_first(binary) ==
    TryV(evaluate(binary.right),
         LAMBDA right :
           TryV(evaluate(binary.left),
                LAMBDA left : binary_operator(binary.operator, left, right)))

visit_binary(binary) ==
    TryV(evaluate(binary.left),
         LAMBDA left :
           TryV(evaluate(binary.right),
                LAMBDA right : binary_operator(binary.operator, left, right)))

visit_group(group) == evaluate(group.expression)

visit_literal(lit) ==
    CASE lit.lit = "String" -> OkV(ValString(lit.s))
      [] lit.lit = "Number" -> OkV(ValNumber(lit.n))
      [] lit.lit = "True" -> OkV(ValBool(TRUE))
      [] lit.lit = "False" -> OkV(ValBool(FALSE))
      [] lit.lit = "Nil" -> OkV(ValNil)
      [] lit.lit = "Identifier" -> Panic

visit_unary(un) ==
    TryV(evaluate(un.expression),
         LAMBDA v :
           CASE un.operator = "Neg" ->
                  TryV(numeric(v), LAMBDA n : OkV(ValNumber(F64Neg(n))))
             [] un.operator = "Not" -> OkV(ValBool(~truthy(v))))

\* Expr::accept
evaluate(e) ==
    CASE e.type = "Binary" -> visit_binary(e)
      [] e.type = "Grouping" -> visit_group(e)
      [] e.type = "Literal" -> visit_literal(e)
      [] e.type = "Unary" -> visit_unary(e)

(***************************************************************************)
(* The expressions handed to the evaluator: every tree of up to MaxNodes   *)
(* nodes over a few literals.                                              *)
(***************************************************************************)
LiteralExprs ==
    {from_string("s"), from_number(F64FromInt(0)), from_number(F64FromInt(1)),
     from_bool(TRUE), from_bool(FALSE), from_nil, from_ident("x")}

RECURSIVE ExprsOfSize(_)
ExprsOfSize(n) ==
    IF n = 1 THEN LiteralExprs
    ELSE LET smaller == [i \in 1..(n - 1) |-> ExprsOfSize(i)]
         IN  {from_unary(op, e) : op \in UnOps, e \in smaller[n - 1]}
               \cup {from_grouping(e) : e \in smaller[n - 1]}
               \cup UNION {{from_binary(l, op, r) :
                              l \in smaller[i], op \in BinOps,
                              r \in smaller[n - 1 - i]} : i \in 1..(n - 2)}

InitEval ==
    /\ source = <<>>
    /\ pos = 0
    /\ peeked = Empty
    /\ statements = <<>>
    /\ result = NoResult
    /\ pc = "eval"
    /\ \E n \in 1..MaxNodes :
         \/ n = 1 /\ expr \in LiteralExprs
         \/ n > 1 /\ \E op \in UnOps, e \in ExprsOfSize(n - 1) :
                       expr = from_unary(op, e)
         \/ n > 1 /\ \E e \in ExprsOfSize(n - 1) : expr = from_grouping(e)
         \/ n > 2 /\ \E i \in 1..(n - 2) :
                       \E op \in BinOps, l \in ExprsOfSize(i),
                          r \in ExprsOfSize(n - 1 - i) :
                         expr = from_binary(l, op, r)
    /\ value = NoResult
    /\ stdout = <<>>
    /\ start = MakePos(0, 1, 1)
    /\ current = MakePos(0, 1, 1)
    /\ items = <<>>
    /\ NoMain

\* Interpreter::evaluate returns a value or a type error
Evaluate ==
    /\ pc = "eval"
    /\ evaluate(expr).tag # "Panic"
    /\ value' = evaluate(expr)
    /\ pc' = "done"
    /\ UNCHANGED <<source, pos, peeked, statements, result, expr, stdout,
                 scanner_vars, main_vars>>

\* Interpreter::evaluate panics (todo!() on an identifier)
EvaluateAbort ==
    /\ pc = "eval"
    /\ evaluate(expr).tag = "Panic"
    /\ value' = Panic
    /\ pc' = "done"
    /\ UNCHANGED <<source, pos, peeked, statements, result, expr, stdout,
                 scanner_vars, main_vars>>

(***************************************************************************)
(* Formatting (syntax.rs, syntax/printer.rs, value.rs, and the derived     *)
(* Debug of LoxValue).  Numbers are formatted as Rust formats an f64 that  *)
(* is an integer, an infinity or NaN; no other number arises within the    *)
(* bounds.                                                                 *)
(***************************************************************************)
RECURSIVE IntStr(_)
IntStr(n) ==
    IF n < 10 THEN Digits[n + 1] ELSE IntStr(n \div 10) \o Digits[(n % 10) + 1]

\* Display for f64 ({n})
DisplayF64(a) ==
    CASE IsNaN(a) -> "NaN"
      [] IsInf(a) -> IF a.sign = -1 THEN "-inf" ELSE "inf"
      [] a.den = 1 -> (IF a.sign = -1 THEN "-" ELSE "") \o IntStr(a.num)

\* Debug for f64 ({n:?})
DebugF64(a) ==
    CASE IsNaN(a) -> "NaN"
      [] IsInf(a) -> IF a.sign = -1 THEN "-inf" ELSE "inf"
      [] a.den = 1 ->
           (IF a.sign = -1 THEN "-" ELSE "") \o IntStr(a.num) \o ".0"

DisplayBinOp(op) ==
    CASE op = "Eq" -> "=="
      [] op = "Ne" -> "!="
      [] op = "Lt" -> "<"
      [] op = "Gt" -> ">"
      [] op = "Le" -> "<="
      [] op = "Ge" -> ">="
      [] op = "Add" -> "+"
      [] op = "Sub" -> "-"
      [] op = "Mul" -> "*"
      [] op = "Div" -> "/"
      [] op = "And" -> "and"
      [] op = "Or" -> "or"

DisplayUnOp(op) == IF op = "Neg" THEN "-" ELSE "!"

\* the grave accent that encloses an identifier, written here as an apostrophe
Backtick == "'"

\* LispAstPrinter as ExprVisitor
RECURSIVE LispExpr(_)
LispExpr(e) ==
    CASE e.type = "Binary" ->
           "(" \o DisplayBinOp(e.operator) \o " " \o LispExpr(e.left) \o " "
               \o LispExpr(e.right) \o ")"
      [] e.type = "Grouping" -> "(group " \o LispExpr(e.expression) \o ")"
      [] e.type = "Unary" ->
           "(" \o DisplayUnOp(e.operator) \o " " \o LispExpr(e.expression)
               \o ")"
      [] e.type = "Literal" ->
           (CASE e.lit = "String" -> "\"" \o e.s \o "\""
              [] e.lit = "Identifier" -> Backtick \o e.id \o Backtick
              [] e.lit = "Number" -> DisplayF64(e.n)
              [] e.lit = "True" -> "true"
              [] e.lit = "False" -> "false"
              [] e.lit = "Nil" -> "nil")

\* LispAstPrinter as StmtVisitor, through Stmt::display_lisp
display_lisp(stmt) ==
    IF stmt.stmt = "Expr" THEN LispExpr(stmt.expression)
    ELSE "(print " \o LispExpr(stmt.expression) \o ")"

\* the derived Debug of a runtime value ({:?})
DebugValue(v) ==
    CASE v.type = "String" -> "String(\"" \o v.s \o "\")"
      [] v.type = "Number" -> "Number(" \o DebugF64(v.n) \o ")"
      [] v.type = "Bool" -> IF v.b THEN "Bool(true)" ELSE "Bool(false)"
      [] v.type = "Nil" -> "Nil"

\* Display for Value
DisplayValue(v) ==
    CASE v.type = "String" -> v.s
      [] v.type = "Number" -> DisplayF64(v.n)
      [] v.type = "Bool" -> IF v.b THEN "true" ELSE "false"
      [] v.type = "Nil" -> "nil"

(***************************************************************************)
(* Lox::run (main.rs) from the statement it holds in `expr`: the println!  *)
(* of its Lisp form, then the match on its form.  The outcome is the lines *)
(* written and what run returns.                                           *)
(***************************************************************************)
run(stmt) ==
    IF stmt.stmt = "Expr"
    THEN LET v == evaluate(stmt.expression)
         IN  [out |-> IF v.tag = "Ok"
                      THEN <<display_lisp(stmt), DebugValue(v.val)>>
                      ELSE <<display_lisp(stmt)>>,
              res |-> v]
    ELSE [out |-> <<display_lisp(stmt)>>, res |-> Panic]

InitRun ==
    /\ source = <<>>
    /\ pos = 0
    /\ peeked = Empty
    /\ statements = <<>>
    /\ result = NoResult
    /\ pc = "run"
    /\ \E n \in 1..RunNodes : \E e \in ExprsOfSize(n) :
         expr \in {StmtExpr(e), StmtPrint(e)}
    /\ value = NoResult
    /\ stdout = <<>>
    /\ start = MakePos(0, 1, 1)
    /\ current = MakePos(0, 1, 1)
    /\ items = <<>>
    /\ NoMain

\* Lox::run returns Ok(value)
RunReturn ==
    /\ pc = "run"
    /\ run(expr).res.tag = "Ok"
    /\ stdout' = stdout \o run(expr).out
    /\ value' = run(expr).res
    /\ pc' = "done"
    /\ UNCHANGED <<source, pos, peeked, statements, result, expr,
                 scanner_vars, main_vars>>

\* Lox::run returns the evaluator's error
RunFail ==
    /\ pc = "run"
    /\ run(expr).res.tag = "Err"
    /\ stdout' = stdout \o run(expr).out
    /\ value' = run(expr).res
    /\ pc' = "done"
    /\ UNCHANGED <<source, pos, peeked, statements, result, expr,
                 scanner_vars, main_vars>>

\* Lox::run panics: todo!() on a Print statement or on an identifier
RunAbort ==
    /\ pc = "run"
    /\ run(expr).res.tag = "Panic"
    /\ stdout' = stdout \o run(expr).out
    /\ value' = Panic
    /\ pc' = "done"
    /\ UNCHANGED <<source, pos, peeked, statements, result, expr,
                 scanner_vars, main_vars>>

(***************************************************************************)
(* Scanner::new followed by calls of Scanner::next, one call per step.     *)
(***************************************************************************)
SourceChars == {"=", "/", " ", "\n", "\"", "1", "a", ".", "_", "#"}

\* every character of punctuation, for shorter sources
SymbolChars == {"(", ")", "{", "}", ",", ".", ";", "-", "+", "*", "!", "=",
                "<", ">", "/", " "}

InitScan ==
    /\ \/ \E n \in 0..MaxChars : source \in [1..n -> SourceChars]
       \/ \E n \in 1..(MaxChars - 2) : source \in [1..n -> SymbolChars]
    /\ pos = 0
    /\ peeked = Empty
    /\ statements = <<>>
    /\ result = NoResult
    /\ pc = "scan"
    /\ expr = NoExpr
    /\ value = NoResult
    /\ stdout = <<>>
    /\ start = MakePos(0, 1, 1)
    /\ current = MakePos(0, 1, 1)
    /\ items = <<>>
    /\ NoMain

\* one call of Scanner::next whose item has the given tag
ScannerCall(tag) ==
    LET r == Scanner_scan_token([start |-> start, current |-> current])
    IN  /\ r.item.tag = tag
        /\ start' = r.sc.start
        /\ current' = r.sc.current
        /\ items' = Append(items, [item |-> r.item,
                                   from |-> r.sc.start.index,
                                   to |-> r.sc.current.index])
        /\ UNCHANGED <<source, pos, peeked, statements, result, pc, expr,
                       value, stdout, main_vars>>

\* Scanner::next returns Some(Ok(token))
ScanToken ==
    /\ pc = "scan"
    /\ ScannerCall("Tok")

\* Scanner::next returns Some(Err(lexical error))
ScanError ==
    /\ pc = "scan"
    /\ ScannerCall("LexErr")

\* Scanner::next returns None
ScanEnd ==
    /\ pc = "scan"
    /\ Cardinality({i \in 1..Len(items) : items[i].item = NoItem}) < MaxEnds
    /\ ScannerCall("None")

(***************************************************************************)
(* Parser::new followed by any calls of peek, advance, consume and         *)
(* matches, one call per step.  `items` is the list of the items advance   *)
(* has delivered (inside consume and matches too), `value` the last call   *)
(* with what it returned.                                                  *)
(***************************************************************************)
LookLexemes == {"print", "==", "1", ";", "#"}

InitLook ==
    /\ \E n \in 0..MaxLen : source \in [1..n -> LookLexemes]
    /\ pos = 0
    /\ peeked = Empty
    /\ statements = <<>>
    /\ result = NoResult
    /\ pc = "look"
    /\ expr = NoExpr
    /\ value = NoResult
    /\ stdout = <<>>
    /\ start = MakePos(0, 1, 1)
    /\ current = MakePos(0, 1, 1)
    /\ items = <<>>
    /\ NoMain

\* the call leaves the parser in state ps, having returned ret and delivered
\* the items of the list given
Called(op, ps, ret, delivered) ==
    /\ Cardinality({i \in 1..Len(items) : items[i] = NoItem})
         + Cardinality({i \in 1..Len(delivered) : delivered[i] = NoItem})
           <= MaxEnds
    /\ pos' = ps.pos
    /\ peeked' = ps.peeked
    /\ value' = [op |-> op, ret |-> ret]
    /\ items' = items \o delivered
    /\ UNCHANGED <<source, statements, result, pc, expr, stdout, start,
                   current, main_vars>>

LookPeek ==
    /\ pc = "look"
    /\ Called("peek", peek(ParserState).ps, peek(ParserState).item, <<>>)

LookAdvance ==
    /\ pc = "look"
    /\ Called("advance", advance(ParserState).ps, advance(ParserState).item,
              <<advance(ParserState).item>>)

\* consume is advance and a comparison; the parser keeps the state advance
\* left also when consume returns an error
LookConsume ==
    /\ pc = "look"
    /\ \E kind \in {TokStructure("SemiColon"), TokStructure("RightParen")} :
         Called("consume", advance(ParserState).ps,
                consume(ParserState, kind), <<advance(ParserState).item>>)

\* matches is peek and, when the predicate holds, advance; on a lexical error
\* the parser keeps the state peek left
LookMatches ==
    /\ pc = "look"
    /\ \E pred \in {"print_match", "var_match", "logical_op", "eq_op",
                     "cmp_op"} :
         LET r == matches(ParserState, pred)
         IN  Called("matches",
                    IF r.tag = "Ok" THEN r.ps ELSE peek(ParserState).ps,
                    r,
                    IF r.tag = "Ok" /\ r.val # "None"
                    THEN <<peek(ParserState).item>> ELSE <<>>)

(***************************************************************************)
(* main and Lox::run_prompt / Lox::run_file (main.rs).  A line of input or *)
(* a script is given as the statement Lox::run holds for it; read_line and *)
(* read_to_string can also fail with an io::Error.                         *)
(***************************************************************************)
TooManyArgs == [e |-> "TooManyArgs"]
Io == [e |-> "Io"]

ReadOk(stmt) == [read |-> "Ok", text |-> stmt]
ReadErr == [read |-> "Err"]

\* a statement that evaluates, one that is a type error, and two that panic
Scripts == {StmtExpr(from_number(F64FromInt(1))),
            StmtExpr(from_unary("Neg", from_string("s"))),
            StmtExpr(from_ident("x")),
            StmtPrint(from_number(F64FromInt(1)))}

Reads == {ReadOk(stmt) : stmt \in Scripts} \cup {ReadErr}

ArgStrings == {"lox", "a.lox"}

\* Lox::new() and a call of Lox::run_prompt
InitPrompt ==
    /\ source = <<>>
    /\ pos = 0
    /\ peeked = Empty
    /\ statements = <<>>
    /\ result = NoResult
    /\ pc = "prompt"
    /\ expr = NoExpr
    /\ value = NoResult
    /\ stdout = <<>>
    /\ start = MakePos(0, 1, 1)
    /\ current = MakePos(0, 1, 1)
    /\ items = <<>>
    /\ args = <<>>
    /\ \E n \in 0..MaxLines : stdin \in [1..n -> Reads]
    /\ file = NoResult
    /\ stderr = <<>>
    /\ call = [fn |-> "run_prompt"]

\* the start of main; a process can be started with any argument vector,
\* the empty one included, and args[1] is the name of the program otherwise
InitMain ==
    /\ source = <<>>
    /\ pos = 0
    /\ peeked = Empty
    /\ statements = <<>>
    /\ result = NoResult
    /\ pc = "main"
    /\ expr = NoExpr
    /\ value = NoResult
    /\ stdout = <<>>
    /\ start = MakePos(0, 1, 1)
    /\ current = MakePos(0, 1, 1)
    /\ items = <<>>
    /\ \E n \in 0..MaxArgs : args \in [1..n -> ArgStrings]
    /\ \E n \in 0..MaxLines : stdin \in [1..n -> Reads]
    /\ file \in Reads
    /\ stderr = <<>>
    /\ call = NoCall

\* [] => lox.run_prompt()
MainPrompt ==
    /\ pc = "main"
    /\ args = <<>>
    /\ call' = [fn |-> "run_prompt"]
    /\ pc' = "prompt"
    /\ UNCHANGED <<source, pos, peeked, statements, result, expr, value,
                   stdout, scanner_vars, args, stdin, file, stderr>>

\* [script] => lox.run_file(script)
MainScript ==
    /\ pc = "main"
    /\ Len(args) = 1
    /\ call' = [fn |-> "run_file", path |-> args[1]]
    /\ pc' = "file"
    /\ UNCHANGED <<source, pos, peeked, statements, result, expr, value,
                   stdout, scanner_vars, args, stdin, file, stderr>>

\* _ => usage line and Err(TooManyArgs)
MainUsage ==
    /\ pc = "main"
    /\ Len(args) > 1
    /\ stderr' = Append(stderr, "Usage: lox [script]")
    /\ result' = [tag |-> "Err", err |-> TooManyArgs]
    /\ pc' = "done"
    /\ UNCHANGED <<source, pos, peeked, statements, expr, value, stdout,
                   scanner_vars, args, stdin, file, call>>

\* one turn of the loop of run_prompt on a line that run accepts
PromptRun ==
    /\ pc = "prompt"
    /\ stdin # <<>>
    /\ Head(stdin).read = "Ok"
    /\ run(Head(stdin).text).res.tag = "Ok"
    /\ stdout' = stdout \o <<"> ">> \o run(Head(stdin).text).out
    /\ stdin' = Tail(stdin)
    /\ UNCHANGED <<source, pos, peeked, statements, result, pc, expr, value,
                   scanner_vars, args, file, stderr, call>>

\* self.run(&line)? on a line that run fails on: run_prompt returns the error
PromptFail ==
    /\ pc = "prompt"
    /\ stdin # <<>>
    /\ Head(stdin).read = "Ok"
    /\ run(Head(stdin).text).res.tag = "Err"
    /\ stdout' = stdout \o <<"> ">> \o run(Head(stdin).text).out
    /\ stdin' = Tail(stdin)
    /\ result' = run(Head(stdin).text).res
    /\ pc' = "done"
    /\ UNCHANGED <<source, pos, peeked, statements, expr, value,
                   scanner_vars, args, file, stderr, call>>

\* run panics on the line
PromptAbort ==
    /\ pc = "prompt"
    /\ stdin # <<>>
    /\ Head(stdin).read = "Ok"
    /\ run(Head(stdin).text).res.tag = "Panic"
    /\ stdout' = stdout \o <<"> ">> \o run(Head(stdin).text).out
    /\ stdin' = Tail(stdin)
    /\ result' = Panic
    /\ pc' = "done"
    /\ UNCHANGED <<source, pos, peeked, statements, expr, value,
                   scanner_vars, args, file, stderr, call>>

\* stdin().read_line(&mut line)? fails
PromptIoError ==
    /\ pc = "prompt"
    /\ stdin # <<>>
    /\ Head(stdin).read = "Err"
    /\ stdout' = Append(stdout, "> ")
    /\ stdin' = Tail(stdin)
    /\ result' = [tag |-> "Err", err |-> Io]
    /\ pc' = "done"
    /\ UNCHANGED <<source, pos, peeked, statements, expr, value,
                   scanner_vars, args, file, stderr, call>>

\* the input is at its end: line.is_empty(), return Ok(())
PromptEof ==
    /\ pc = "prompt"
    /\ stdin = <<>>
    /\ stdout' = Append(stdout, "> ")
    /\ result' = [tag |-> "Ok"]
    /\ pc' = "done"
    /\ UNCHANGED <<source, pos, peeked, statements, expr, value,
                   scanner_vars, args, stdin, file, stderr, call>>

\* run_file: read_to_string(path)? fails
FileIoError ==
    /\ pc = "file"
    /\ file.read = "Err"
    /\ result' = [tag |-> "Err", err |-> Io]
    /\ pc' = "done"
    /\ UNCHANGED <<source, pos, peeked, statements, expr, value, stdout,
                   scanner_vars, main_vars>>

\* run_file: self.run(&data)?; Ok(())
FileRun ==
    /\ pc = "file"
    /\ file.read = "Ok"
    /\ run(file.text).res.tag = "Ok"
    /\ stdout' = stdout \o run(file.text).out
    /\ result' = [tag |-> "Ok"]
    /\ pc' = "done"
    /\ UNCHANGED <<source, pos, peeked, statements, expr, value,
                   scanner_vars, main_vars>>

\* run_file: self.run(&data)? returns the error of run
FileFail ==
    /\ pc = "file"
    /\ file.read = "Ok"
    /\ run(file.text).res.tag = "Err"
    /\ stdout' = stdout \o run(file.text).out
    /\ result' = run(file.text).res
    /\ pc' = "done"
    /\ UNCHANGED <<source, pos, peeked, statements, expr, value,
                   scanner_vars, main_vars>>

\* run_file: run panics
FileAbort ==
    /\ pc = "file"
    /\ file.read = "Ok"
    /\ run(file.text).res.tag = "Panic"
    /\ stdout' = stdout \o run(file.text).out
    /\ result' = Panic
    /\ pc' = "done"
    /\ UNCHANGED <<source, pos, peeked, statements, expr, value,
                   scanner_vars, main_vars>>

Next == ParseStatement \/ ParseReturn \/ ParseFail \/ ParseAbort

Spec == Init /\ [][Next]_vars

NextEval == Evaluate \/ EvaluateAbort

SpecEval == InitEval /\ [][NextEval]_vars

NextRun == RunReturn \/ RunFail \/ RunAbort

SpecRun == InitRun /\ [][NextRun]_vars

NextLook == LookPeek \/ LookAdvance \/ LookConsume \/ LookMatches

SpecLook == InitLook /\ [][NextLook]_vars

NextPrompt ==
    PromptRun \/ PromptFail \/ PromptAbort \/ PromptIoError \/ PromptEof

SpecPrompt == InitPrompt /\ [][NextPrompt]_vars

NextMain ==
    \/ MainPrompt \/ MainScript \/ MainUsage
    \/ PromptRun \/ PromptFail \/ PromptAbort \/ PromptIoError \/ PromptEof
    \/ FileIoError \/ FileRun \/ FileFail \/ FileAbort

SpecMain == InitMain /\ [][NextMain]_vars

NextScan == ScanToken \/ ScanError \/ ScanEnd

SpecScan == InitScan /\ [][NextScan]_vars

(***************************************************************************)
(* The grammar the claims speak of, stated on token kinds and without the  *)
(* parser: operand tokens, prefix operators, the five binary levels, the   *)
(* tree of a well-formed expression, and where an operand is expected.     *)
(***************************************************************************)
LeftParen == TokStructure("LeftParen")
RightParen == TokStructure("RightParen")
SemiColon == TokStructure("SemiColon")

AllTokens(text) == \A i \in 1..Len(text) : scan_token(text[i]).tag = "Tok"
Kinds(text) == [i \in 1..Len(text) |-> scan_token(text[i]).kind]

RefBad == [type |-> "Bad"]

RefIsOperand(k) == k.k \in {"Number", "String", "Identifier", "Literal"}

RefLiteral(k) ==
    CASE k.k = "Number" -> from_number(k.n)
      [] k.k = "String" -> from_string(k.s)
      [] k.k = "Identifier" -> from_ident(k.id)
      [] k.k = "Literal" ->
           (CASE k.lit = "True" -> from_bool(TRUE)
              [] k.lit = "False" -> from_bool(FALSE)
              [] k.lit = "Nil" -> from_nil)

RefUnOp(k) ==
    CASE k = TokOperator("Minus") -> "Neg"
      [] k = TokOperator("Bang") -> "Not"
      [] OTHER -> "None"

\* 5 binds tightest; 0: not a binary operator
RefLevel(k) ==
    CASE k.k # "Operator" -> 0
      [] k.op \in {"Star", "Slash"} -> 5
      [] k.op \in {"Plus", "Minus"} -> 4
      [] k.op \in {"Less", "LessEqual", "Greater", "GreaterEqual"} -> 3
      [] k.op \in {"EqualEqual", "BangEqual"} -> 2
      [] k.op \in {"And", "Or"} -> 1
      [] OTHER -> 0

RefBinOp(k) ==
    CASE k.op = "Star" -> "Mul"
      [] k.op = "Slash" -> "Div"
      [] k.op = "Plus" -> "Add"
      [] k.op = "Minus" -> "Sub"
      [] k.op = "Less" -> "Lt"
      [] k.op = "LessEqual" -> "Le"
      [] k.op = "Greater" -> "Gt"
      [] k.op = "GreaterEqual" -> "Ge"
      [] k.op = "EqualEqual" -> "Eq"
      [] k.op = "BangEqual" -> "Ne"
      [] k.op = "And" -> "And"
      [] k.op = "Or" -> "Or"

\* parentheses open after the first i tokens
RefDepth(ks, i) ==
    Cardinality({j \in 1..i : ks[j] = LeftParen})
      - Cardinality({j \in 1..i : ks[j] = RightParen})

\* the binary operators outside every parenthesis: an operator that follows
\* an operand or a `)`
RefTopBinary(ks) ==
    {i \in 2..Len(ks) :
       /\ RefLevel(ks[i]) > 0
       /\ RefDepth(ks, i) = 0
       /\ RefIsOperand(ks[i - 1]) \/ ks[i - 1] = RightParen}

Max(S) == CHOOSE x \in S : \A y \in S : y <= x

\* where the tree splits: the last of the loosest operators outside parentheses
RefSplit(ks) ==
    Max({i \in RefTopBinary(ks) :
           \A j \in RefTopBinary(ks) : RefLevel(ks[i]) <= RefLevel(ks[j])})

RECURSIVE RefExpr(_)
RefBinary(l, op, r) ==
    IF l = RefBad \/ r = RefBad THEN RefBad ELSE from_binary(l, op, r)
RefUnary(op, e) == IF e = RefBad THEN RefBad ELSE from_unary(op, e)
RefGrouping(e) == IF e = RefBad THEN RefBad ELSE from_grouping(e)

RefExpr(ks) ==
    CASE ks = <<>> -> RefBad
      [] ks # <<>> /\ RefTopBinary(ks) # {} ->
           RefBinary(RefExpr(SubSeq(ks, 1, RefSplit(ks) - 1)),
                     RefBinOp(ks[RefSplit(ks)]),
                     RefExpr(SubSeq(ks, RefSplit(ks) + 1, Len(ks))))
      [] ks # <<>> /\ RefTopBinary(ks) = {} /\ RefUnOp(ks[1]) # "None" ->
           RefUnary(RefUnOp(ks[1]), RefExpr(Tail(ks)))
      [] ks # <<>> /\ RefTopBinary(ks) = {} /\ ks[1] = LeftParen ->
           IF /\ ks[Len(ks)] = RightParen
              /\ RefDepth(ks, Len(ks)) = 0
              /\ \A i \in 1..(Len(ks) - 1) : RefDepth(ks, i) > 0
           THEN RefGrouping(RefExpr(SubSeq(ks, 2, Len(ks) - 1)))
           ELSE RefBad
      [] OTHER -> IF Len(ks) = 1 /\ RefIsOperand(ks[1]) THEN RefLiteral(ks[1])
                  ELSE RefBad

\* a statement without its `;`
RefStmt(ks) ==
    IF ks # <<>> /\ ks[1] = TokKeyword("Print")
    THEN [ok |-> RefExpr(Tail(ks)) # RefBad, stmt |-> StmtPrint(RefExpr(Tail(ks)))]
    ELSE [ok |-> RefExpr(ks) # RefBad, stmt |-> StmtExpr(RefExpr(ks))]

Min(S) == CHOOSE x \in S : \A y \in S : x <= y

\* a program: statements each ended by `;`, in source order
RECURSIVE RefProgram(_)
RefFirstSemi(ks) == Min({i \in 1..Len(ks) : ks[i] = SemiColon})
RefCons(first, rest) ==
    [ok |-> first.ok /\ rest.ok, stmts |-> <<first.stmt>> \o rest.stmts]
RefProgram(ks) ==
    CASE ks = <<>> -> [ok |-> TRUE, stmts |-> <<>>]
      [] ks # <<>> /\ \A i \in 1..Len(ks) : ks[i] # SemiColon ->
           [ok |-> FALSE, stmts |-> <<>>]
      [] OTHER ->
           RefCons(RefStmt(SubSeq(ks, 1, RefFirstSemi(ks) - 1)),
                   RefProgram(SubSeq(ks, RefFirstSemi(ks) + 1, Len(ks))))

WellFormed(text) == AllTokens(text) /\ RefProgram(Kinds(text)).ok

\* what the grammar expects after a prefix: "Start" of a statement, an
\* "Operand", or what may come "After" an operand; "Bad" once it is violated
RefStep(m, k) ==
    CASE m.mode = "Bad" -> m
      [] m.mode = "Start" /\ k = TokKeyword("Print") ->
           [mode |-> "Operand", depth |-> 0]
      [] m.mode \in {"Start", "Operand"} /\ k # TokKeyword("Print") ->
           (CASE RefUnOp(k) # "None" -> [mode |-> "Operand", depth |-> m.depth]
              [] k = LeftParen -> [mode |-> "Operand", depth |-> m.depth + 1]
              [] RefIsOperand(k) -> [mode |-> "After", depth |-> m.depth]
              [] OTHER -> [mode |-> "Bad", depth |-> 0])
      [] m.mode = "After" ->
           (CASE RefLevel(k) > 0 -> [mode |-> "Operand", depth |-> m.depth]
              [] k = RightParen /\ m.depth > 0 ->
                   [mode |-> "After", depth |-> m.depth - 1]
              [] k = SemiColon /\ m.depth = 0 ->
                   [mode |-> "Start", depth |-> 0]
              [] OTHER -> [mode |-> "Bad", depth |-> 0])
      [] OTHER -> [mode |-> "Bad", depth |-> 0]

RECURSIVE RefMode(_)
RefMode(ks) ==
    IF ks = <<>> THEN [mode |-> "Start", depth |-> 0]
    ELSE RefStep(RefMode(SubSeq(ks, 1, Len(ks) - 1)), ks[Len(ks)])

\* the first n lexemes are tokens after which an operand is expected
OperandExpectedAfter(n) ==
    /\ AllTokens(SubSeq(source, 1, n))
    /\ RefMode(Kinds(SubSeq(source, 1, n))).mode \in {"Start", "Operand"}

\* the first n lexemes are tokens that end with a complete statement expression
ExpressionCompleteAfter(n) ==
    /\ AllTokens(SubSeq(source, 1, n))
    /\ RefMode(Kinds(SubSeq(source, 1, n))) = [mode |-> "After", depth |-> 0]

ParseOk(stmts) == [tag |-> "Ok", stmts |-> stmts]
ParseErr(e) == [tag |-> "Err", err |-> e]

(***************************************************************************)
(* Claims about the parser, checked under Spec.                            *)
(***************************************************************************)

\* C1: when the expression of a statement is followed by a token other than
\* `;` (and not by an operator that continues it), or by the end of the text,
\* Parser::parse fails with BadStructure.
C1_MissingSemicolonIsBadStructure ==
    pc = "done" =>
      \A n \in 1..Len(source) :
        ( /\ ExpressionCompleteAfter(n)
          /\ \/ n = Len(source)
             \/ /\ scan_token(source[n + 1]).tag = "Tok"
                /\ scan_token(source[n + 1]).kind # SemiColon
                /\ RefLevel(scan_token(source[n + 1]).kind) = 0 )
        => (result.tag = "Err" /\ result.err.e = "BadStructure")

\* C2: when the text ends where an operand is required (after a binary or
\* prefix operator, after `(`, after `print`), Parser::parse returns
\* Err(EndOfFile).
C2_EndOfFileWhereOperandRequired ==
    (pc = "done" /\ source # <<>> /\ AllTokens(source)
       /\ RefMode(Kinds(source)).mode = "Operand")
      => result = ParseErr(EndOfFile)

\* C3: Parser::parse returns Ok exactly for the well-formed programs, with the
\* statements in source order, and an error (a lexical error of the scanner
\* wrapped as LexicalError) for every other text.
C3_AllOrNothing ==
    pc = "done" =>
      /\ IF WellFormed(source)
         THEN result = ParseOk(RefProgram(Kinds(source)).stmts)
         ELSE result.tag = "Err"
      /\ \A n \in 0..(Len(source) - 1) :
           ( /\ AllTokens(SubSeq(source, 1, n))
             /\ RefMode(Kinds(SubSeq(source, 1, n))).mode # "Bad"
             /\ scan_token(source[n + 1]).tag = "LexErr" )
           => result = ParseErr(LexicalError(scan_token(source[n + 1]).err))

\* C4: for every well-formed text the parser returns the trees in which the
\* binary operators bind factor > term > comparison > equality > logical and
\* operators of one level associate to the left.
C4_PrecedenceAndAssociativity ==
    (pc = "done" /\ WellFormed(source))
      => result = ParseOk(RefProgram(Kinds(source)).stmts)

C4_Witness ==
    /\ pc = "done"
    /\ source = <<"1", "-", "x", "*", "1", ";">>
    /\ result = ParseOk(<<StmtExpr(
         from_binary(from_number(F64FromInt(1)), "Sub",
                     from_binary(from_ident("x"), "Mul",
                                 from_number(F64FromInt(1)))))>>)

\* C5: a chain of prefix operators before a primary parses into nested Unary
\* nodes, the first operator outermost, and a prefixed operand binds tighter
\* than any binary operator that follows it.
RECURSIVE UnaryChain(_)
UnaryChain(ks) ==
    IF Len(ks) = 1 THEN RefLiteral(ks[1])
    ELSE from_unary(RefUnOp(ks[1]), UnaryChain(Tail(ks)))

IsUnaryChain(ks) ==
    /\ Len(ks) >= 2
    /\ \A i \in 1..(Len(ks) - 1) : RefUnOp(ks[i]) # "None"
    /\ RefIsOperand(ks[Len(ks)])

C5_UnaryRightRecursive ==
    (pc = "done" /\ source # <<>> /\ AllTokens(source)
       /\ source[Len(source)] = ";")
      => LET ks == Kinds(SubSeq(source, 1, Len(source) - 1))
         IN  /\ IsUnaryChain(ks) => result = ParseOk(<<StmtExpr(UnaryChain(ks))>>)
             /\ ( /\ Len(ks) = 4
                  /\ RefUnOp(ks[1]) # "None"
                  /\ RefIsOperand(ks[2])
                  /\ RefLevel(ks[3]) > 0
                  /\ RefIsOperand(ks[4]) )
                => result = ParseOk(<<StmtExpr(
                     from_binary(from_unary(RefUnOp(ks[1]), RefLiteral(ks[2])),
                                 RefBinOp(ks[3]), RefLiteral(ks[4])))>>)

C5_Witness ==
    /\ pc = "done"
    /\ source = <<"!", "-", "1", ";">>
    /\ result = ParseOk(<<StmtExpr(
         from_unary("Not", from_unary("Neg", from_number(F64FromInt(1)))))>>)

\* C6: after `(` in operand position and one full expression, a `)` gives a
\* Grouping of that expression, and any other token gives BadStructure(None).
C6_GroupingNeedsRightParen ==
    pc = "done" =>
      /\ \A i \in 1..Len(source) : \A j \in (i + 2)..Len(source) :
           ( /\ source[i] = "("
             /\ OperandExpectedAfter(i - 1)
             /\ AllTokens(SubSeq(source, i + 1, j))
             /\ RefExpr(Kinds(SubSeq(source, i + 1, j - 1))) # RefBad
             /\ RefLevel(scan_token(source[j]).kind) = 0
             /\ scan_token(source[j]).kind # RightParen )
           => result = ParseErr(BadStructure("None"))
      /\ ( /\ Len(source) >= 4
           /\ AllTokens(source)
           /\ source[1] = "("
           /\ SubSeq(source, Len(source) - 1, Len(source)) = <<")", ";">>
           /\ RefExpr(Kinds(SubSeq(source, 2, Len(source) - 2))) # RefBad )
         => result = ParseOk(<<StmtExpr(from_grouping(
              RefExpr(Kinds(SubSeq(source, 2, Len(source) - 2)))))>>)

C6_Witness ==
    /\ pc = "done"
    /\ source = <<"(", "1", ";">>
    /\ result = ParseErr(BadStructure("None"))

\* C7: a token in operand position that cannot start an operand fails the
\* parse with the error of its class: BadOperator(op) for an operator other
\* than `-` and `!`, Unsupported for the keywords not handled, BadStructure(st)
\* for punctuation other than `(`.
UnhandledKeywords == {"Class", "Else", "Fun", "For", "If", "Return", "Super",
                      "This", "While"}

C7_NonOperandTokenError ==
    pc = "done" =>
      \A i \in 1..Len(source) :
        (OperandExpectedAfter(i - 1) /\ scan_token(source[i]).tag = "Tok")
        => LET k == scan_token(source[i]).kind
           IN  /\ (k.k = "Operator" /\ RefUnOp(k) = "None")
                    => result = ParseErr(BadOperator(k.op))
               /\ (k.k = "Keyword" /\ k.kw \in UnhandledKeywords)
                    => result = ParseErr(Unsupported)
               /\ (k.k = "Structure" /\ k # LeftParen)
                    => result = ParseErr(BadStructure(k.st))

C7_Witness ==
    /\ pc = "done"
    /\ source = <<"1", "+", "while">>
    /\ result = ParseErr(Unsupported)

\* C8: each of the lexemes true, false, nil is scanned into a token that the
\* parser accepts as an operand, giving Literal True / False / Nil.
C8_BooleanNilLiteralsParse ==
    /\ (pc = "done" /\ source = <<"true", ";">>)
         => result = ParseOk(<<StmtExpr(from_bool(TRUE))>>)
    /\ (pc = "done" /\ source = <<"false", ";">>)
         => result = ParseOk(<<StmtExpr(from_bool(FALSE))>>)
    /\ (pc = "done" /\ source = <<"nil", ";">>)
         => result = ParseOk(<<StmtExpr(from_nil)>>)

\* C9: a statement that begins with `var` is parsed or rejected with an error;
\* the parser does not panic on it.
C9_VarStatementDoesNotPanic ==
    pc = "done" =>
      \A i \in 1..Len(source) :
        ( /\ AllTokens(SubSeq(source, 1, i - 1))
          /\ RefMode(Kinds(SubSeq(source, 1, i - 1))).mode = "Start"
          /\ source[i] = "var" )
        => result.tag \in {"Ok", "Err"}

(***************************************************************************)
(* Claims about the evaluator, checked under SpecEval.                     *)
(***************************************************************************)

\* C10: Binary And / Or evaluates both operands: with both values it yields
\* Bool of the conjunction / disjunction of their truthiness, and a type error
\* of the right operand fails the whole expression whatever the left value is.
Falsy(v) == v = ValNil \/ v = ValBool(FALSE)

C11_AndOrShortCircuit ==
    (pc = "done" /\ expr.type = "Binary" /\ evaluate(expr.left).tag = "Ok")
      => /\ (expr.operator = "And" /\ Falsy(evaluate(expr.left).val))
              => value = OkV(ValBool(FALSE))
         /\ (expr.operator = "Or" /\ ~Falsy(evaluate(expr.left).val))
              => value = OkV(ValBool(TRUE))

\* C12: Add of two Numbers is their sum, of two Strings the left text followed
\* by the right text; every other pair of values fails with a TypeError that
\* carries the left operand's value.
C12_AddOverload ==
    (pc = "done" /\ expr.type = "Binary" /\ expr.operator = "Add"
       /\ evaluate(expr.left).tag = "Ok" /\ evaluate(expr.right).tag = "Ok")
      => LET l == evaluate(expr.left).val
             r == evaluate(expr.right).val
         IN  CASE l.type = "Number" /\ r.type = "Number" ->
                    value = OkV(ValNumber(F64Add(l.n, r.n)))
               [] l.type = "String" /\ r.type = "String" ->
                    value = OkV(ValString(l.s \o r.s))
               [] OTHER -> value = Err(TypeError(l))

C12_Witness ==
    /\ pc = "done"
    /\ expr = from_binary(from_number(F64FromInt(1)), "Add", from_string("s"))
    /\ value = Err(TypeError(ValNumber(F64FromInt(1))))

\* C13: Sub, Mul, Div, Lt, Gt, Le, Ge on two Numbers give the Number or Bool of
\* the operation; with a non-Number operand they fail with a TypeError that
\* carries the left operand if it is not a Number, and else the right one.
NumericResult(op, a, b) ==
    CASE op = "Sub" -> ValNumber(F64Sub(a, b))
      [] op = "Mul" -> ValNumber(F64Mul(a, b))
      [] op = "Div" -> ValNumber(F64Div(a, b))
      [] op = "Lt" -> ValBool(F64Lt(a, b))
      [] op = "Gt" -> ValBool(F64Lt(b, a))
      [] op = "Le" -> ValBool(F64Lt(a, b) \/ F64Eq(a, b))
      [] op = "Ge" -> ValBool(F64Lt(b, a) \/ F64Eq(a, b))

C13_NumericOperators ==
    (pc = "done" /\ expr.type = "Binary"
       /\ expr.operator \in {"Sub", "Mul", "Div", "Lt", "Gt", "Le", "Ge"}
       /\ evaluate(expr.left).tag = "Ok" /\ evaluate(expr.right).tag = "Ok")
      => LET l == evaluate(expr.left).val
             r == evaluate(expr.right).val
         IN  CASE l.type # "Number" -> value = Err(TypeError(l))
               [] r.type # "Number" -> value = Err(TypeError(r))
               [] OTHER -> value = OkV(NumericResult(expr.operator, l.n, r.n))

C13_Witness ==
    /\ pc = "done"
    /\ expr = from_binary(from_nil, "Sub", from_string("s"))
    /\ value = Err(TypeError(ValNil))

\* C14: Eq and Ne never fail: Eq is true exactly for two values of the same
\* variant with equal content, false for values of different variants, and Ne
\* is the negation of Eq.
SameNumber(a, b) ==
    /\ ~IsNaN(a)
    /\ ~IsNaN(b)
    /\ IF IsInf(a) \/ IsInf(b) THEN IsInf(a) /\ IsInf(b) /\ a.sign = b.sign
       ELSE SignedNum(a) * b.den = SignedNum(b) * a.den

SameValue(l, r) ==
    /\ l.type = r.type
    /\ CASE l.type = "String" -> l.s = r.s
         [] l.type = "Number" -> SameNumber(l.n, r.n)
         [] l.type = "Bool" -> l.b = r.b
         [] l.type = "Nil" -> TRUE

C14_EqualityTotal ==
    (pc = "done" /\ expr.type = "Binary" /\ expr.operator \in {"Eq", "Ne"}
       /\ evaluate(expr.left).tag = "Ok" /\ evaluate(expr.right).tag = "Ok")
      => LET same == SameValue(evaluate(expr.left).val,
                               evaluate(expr.right).val)
         IN  value = OkV(ValBool(IF expr.operator = "Eq" THEN same
                                 ELSE ~same))

C14_Witness ==
    /\ pc = "done"
    /\ expr = from_binary(from_nil, "Eq", from_bool(FALSE))
    /\ value = OkV(ValBool(FALSE))

\* C15: Not never fails and gives Bool(TRUE) exactly for Nil and Bool(FALSE);
\* Neg gives the negated Number, and fails on any other value with a TypeError
\* carrying that value.
C15_UnaryEvaluation ==
    (pc = "done" /\ expr.type = "Unary"
       /\ evaluate(expr.expression).tag = "Ok")
      => LET v == evaluate(expr.expression).val
         IN  /\ expr.operator = "Not" => value = OkV(ValBool(Falsy(v)))
             /\ (expr.operator = "Neg" /\ v.type = "Number")
                  => value = OkV(ValNumber(F64Neg(v.n)))
             /\ (expr.operator = "Neg" /\ v.type # "Number")
                  => value = Err(TypeError(v))

C15_Witness ==
    /\ pc = "done"
    /\ expr = from_unary("Not", from_number(F64FromInt(0)))
    /\ value = OkV(ValBool(FALSE))

RECURSIVE ContainsIdentifier(_)
ContainsIdentifier(e) ==
    CASE e.type = "Literal" -> e.lit = "Identifier"
      [] e.type = "Binary" ->
           ContainsIdentifier(e.left) \/ ContainsIdentifier(e.right)
      [] OTHER -> ContainsIdentifier(e.expression)

C17_IdentifierIsUndefinedReference ==
    (pc = "done" /\ ContainsIdentifier(expr))
      => /\ value.tag = "Err"
         /\ expr.type = "Literal" => value.err.e = "UndefinedReference"

(***************************************************************************)
(* Claims about running a statement, checked under SpecRun.                *)
(***************************************************************************)

\* C18: running a Print statement writes the value of its expression to
\* standard output once and nothing else; running an Expr statement writes
\* nothing to standard output.
C18_StatementSideEffect ==
    (pc = "done" /\ evaluate(expr.expression).tag = "Ok")
      => /\ expr.stmt = "Print"
              => stdout = <<DisplayValue(evaluate(expr.expression).val)>>
         /\ expr.stmt = "Expr" => stdout = <<>>

(***************************************************************************)
(* Claims about the character-level scanner, checked under SpecScan.       *)
(***************************************************************************)

\* the 1-based row and column of the character after the first i characters
\* of the source: one row per newline before it, the column counted from the
\* last such newline
RefRow(i) == 1 + Cardinality({j \in 1..i : source[j] = "\n"})
RefCol(i) == i + 1 - Max({0} \cup {j \in 1..i : source[j] = "\n"})

\* the characters a token of the given kind can begin with
FirstChars(kind) ==
    CASE kind.k = "String" -> {"\""}
      [] kind.k = "Number" -> DigitChars
      [] kind.k \in {"Identifier", "Keyword"} -> Letters \cup {"_"}
      [] kind.k = "Operator" /\ kind.op \in {"And", "Or"} -> Letters
      [] kind = TokOperator("BangEqual") -> {"!"}
      [] kind = TokOperator("EqualEqual") -> {"="}
      [] kind = TokOperator("LessEqual") -> {"<"}
      [] kind = TokOperator("GreaterEqual") -> {">"}
      [] OTHER -> {c \in DOMAIN ScanSymbol : ScanSymbol[c] = kind}

ScannedTokens == SelectSeq(items, LAMBDA it : it.item.tag = "Tok")

\* C19: every token carries the 1-based row and column of the first character
\* of its lexeme, whatever text precedes it: newlines in whitespace, at the
\* end of a comment, or inside an earlier string.
C19_TokenPosition ==
    \A i \in 1..Len(items) :
      items[i].item.tag = "Tok"
        => /\ items[i].from < items[i].to
           /\ source[items[i].from + 1] \in FirstChars(items[i].item.kind)
           /\ items[i].item.meta.row = RefRow(items[i].from)
           /\ items[i].item.meta.col = RefCol(items[i].from)

C19_Witness ==
    /\ source = <<"\"", "\n", "\"", "a">>
    /\ Len(items) = 2
    /\ items[2].item = Token(TokIdentifier("a"), [row |-> 2, col |-> 2])

\* C20: token positions never go backwards: rows do not decrease, columns do
\* not decrease within a row, and only a string literal has a lexeme with a
\* newline in it.
C20_PositionsMonotonic ==
    /\ \A i \in 1..(Len(ScannedTokens) - 1) :
         LET t1 == ScannedTokens[i].item.meta
             t2 == ScannedTokens[i + 1].item.meta
         IN  /\ t1.row <= t2.row
             /\ t1.row = t2.row => t1.col <= t2.col
    /\ \A i \in 1..Len(ScannedTokens) :
         ScannedTokens[i].item.kind.k # "String"
           => \A j \in (ScannedTokens[i].from + 1)..ScannedTokens[i].to :
                source[j] # "\n"

C20_Witness ==
    /\ source = <<"a", "\n", "=", "a">>
    /\ Len(ScannedTokens) = 3
    /\ ScannedTokens[3].item.meta = [row |-> 2, col |-> 2]

\* where the first i characters of the source leave a reader of Lox text: in
\* code, after one `/`, inside a `//` comment, or inside a string literal
RefLexStep(m, c) ==
    CASE m = "comment" -> IF c = "\n" THEN "code" ELSE "comment"
      [] m = "string" -> IF c = "\"" THEN "code" ELSE "string"
      [] c = "\"" -> "string"
      [] c = "/" -> IF m = "slash" THEN "comment" ELSE "slash"
      [] OTHER -> "code"

RECURSIVE RefLexMode(_)
RefLexMode(i) ==
    IF i = 0 THEN "code" ELSE RefLexStep(RefLexMode(i - 1), source[i])

IsUnterminated(it) ==
    it.item.tag = "LexErr" /\ it.item.err.e = "UnterminatedString"

ScanFinished == \E i \in 1..Len(items) : items[i].item = NoItem

\* C21: a string literal left open at the end of input is reported as
\* UnterminatedString at the row and column of its opening quote; the items
\* before it are tokens of the text before that quote, and nothing but the
\* end of the sequence follows it.  A finished scan has reported it exactly
\* when the source ends inside a string.
C21_UnterminatedStringAtOpeningQuote ==
    /\ \A i \in 1..Len(items) :
         IsUnterminated(items[i])
           => /\ source[items[i].from + 1] = "\""
              /\ RefLexMode(items[i].from) \in {"code", "slash"}
              /\ \A j \in (items[i].from + 2)..Len(source) : source[j] # "\""
              /\ items[i].item.err.row = RefRow(items[i].from)
              /\ items[i].item.err.col = RefCol(items[i].from)
              /\ \A j \in 1..(i - 1) : items[j].to <= items[i].from
              /\ \A j \in (i + 1)..Len(items) : items[j].item = NoItem
    /\ ScanFinished
         => (RefLexMode(Len(source)) = "string"
               <=> \E i \in 1..Len(items) : IsUnterminated(items[i]))

C21_Witness ==
    /\ source = <<"\"", "\"", "\"", "a">>
    /\ Len(items) = 3
    /\ items[1].item = Token(TokString(""), [row |-> 1, col |-> 1])
    /\ items[2].item = LexErr(UnterminatedString(1, 3))
    /\ items[3].item = NoItem

\* C22: an unexpected character is reported with the row and column at which
\* that character stands in the source.
C22_UnexpectedCharPosition ==
    \A i \in 1..Len(items) :
      (items[i].item.tag = "LexErr" /\ items[i].item.err.e = "UnexpectedChar")
        => /\ items[i].to = items[i].from + 1
           /\ items[i].item.err.c = source[items[i].to]
           /\ items[i].item.err.row = RefRow(items[i].to - 1)
           /\ items[i].item.err.col = RefCol(items[i].to - 1)

\* the characters of an item's lexeme
Lexeme(it) == SubSeq(source, it.from + 1, it.to)

CharAt(j) == IF j \in 1..Len(source) THEN source[j] ELSE NoChar

\* the value of a lexeme digits[.digits]: each digit weighted by its place
RefDecimalValue(cs) ==
    LET ds == SelectSeq(cs, LAMBDA c : c # ".")
        places == Cardinality({j \in 1..Len(cs) :
                                 \E d \in 1..(j - 1) : cs[d] = "."})
        RECURSIVE Sum(_)
        Sum(j) == IF j = 0 THEN 0
                  ELSE DigitValue(ds[j]) * Pow10(Len(ds) - j) + Sum(j - 1)
    IN  F64(1, Sum(Len(ds)), Pow10(places))

\* digits, or digits `.` digits
IsNumberLexeme(cs) ==
    /\ cs # <<>>
    /\ \A j \in 1..Len(cs) : cs[j] \in DigitChars \cup {"."}
    /\ Cardinality({j \in 1..Len(cs) : cs[j] = "."}) <= 1
    /\ cs[1] # "."
    /\ cs[Len(cs)] # "."

\* C23: a number token's lexeme is digits, or digits `.` digits, and as long
\* as it can be: no digit follows it, and a `.` follows an integer lexeme only
\* when no digit follows that `.`; such a `.` is the next token, a Dot.  The
\* token's value is the decimal value of the lexeme.
C23_NumberLexeme ==
    \A i \in 1..Len(items) :
      (items[i].item.tag = "Tok" /\ items[i].item.kind.k = "Number")
        => /\ IsNumberLexeme(Lexeme(items[i]))
           /\ CharAt(items[i].from) \notin DigitChars
           /\ CharAt(items[i].to + 1) \notin DigitChars
           /\ (CharAt(items[i].to + 1) = "."
                 /\ "." \notin {Lexeme(items[i])[j] :
                                   j \in 1..Len(Lexeme(items[i]))})
                => CharAt(items[i].to + 2) \notin DigitChars
           /\ (CharAt(items[i].to + 1) = "." /\ i < Len(items))
                => /\ items[i + 1].item.tag = "Tok"
                   /\ items[i + 1].item.kind = TokStructure("Dot")
                   /\ items[i + 1].from = items[i].to
                   /\ items[i + 1].to = items[i].to + 1
           /\ items[i].item.kind.n = RefDecimalValue(Lexeme(items[i]))

C23_Witness ==
    /\ source = <<"1", ".", "1", ".">>
    /\ Len(items) = 2
    /\ items[1].item = Token(TokNumber(F64(1, 11, 10)), [row |-> 1, col |-> 1])
    /\ items[2].item = Token(TokStructure("Dot"), [row |-> 1, col |-> 4])

WordChars == Letters \cup DigitChars \cup {"_"}

\* C24: the lexeme of an identifier or keyword token starts with a letter or
\* `_`, goes on with letters, digits and `_`, and is as long as it can be: no
\* such character follows it.  It is a keyword or `and`/`or` exactly when it
\* is a reserved spelling, and otherwise an Identifier carrying the text.
C24_IdentifierLexeme ==
    \A i \in 1..Len(items) :
      (/\ items[i].item.tag = "Tok"
       /\ \/ items[i].item.kind.k \in {"Identifier", "Keyword"}
          \/ items[i].item.kind \in {TokOperator("And"), TokOperator("Or")})
        => /\ Lexeme(items[i]) # <<>>
           /\ Lexeme(items[i])[1] \in Letters \cup {"_"}
           /\ \A j \in 1..Len(Lexeme(items[i])) :
                Lexeme(items[i])[j] \in WordChars
           /\ CharAt(items[i].to + 1) \notin WordChars
           /\ items[i].item.kind.k = "Identifier"
                <=> Join(Lexeme(items[i])) \notin ReservedWords
           /\ items[i].item.kind.k = "Identifier"
                => items[i].item.kind.id = Join(Lexeme(items[i]))

\* the characters of the source that belong to a lexeme: those of a string
\* literal with its quotes, and those of code that are neither whitespace
\* nor part of a comment
Significant(j) ==
    LET before == RefLexMode(j - 1)
        after == RefLexMode(j)
    IN  \/ before = "string"
        \/ after = "string"
        \/ /\ before \in {"code", "slash"}
           /\ after = "code"
           /\ source[j] \notin Whitespace
        \/ /\ after = "slash"
           /\ CharAt(j + 1) # "/"

Covered ==
    UNION {(items[i].from + 1)..items[i].to :
             i \in {k \in 1..Len(items) : items[k].item # NoItem}}

\* C25: no token and no error is made of whitespace or of the characters of
\* a comment, and a finished scan has made its tokens of all the other
\* characters and of nothing else, also when the source ends in whitespace
\* or in a comment without a newline.
C25_WhitespaceAndCommentsSkipped ==
    /\ \A j \in Covered : Significant(j)
    /\ \A i \in 1..Len(items) :
         items[i].item # NoItem
           => /\ RefLexMode(items[i].from) \in {"code", "slash"}
              /\ ~ (CharAt(items[i].from + 1) = "/"
                      /\ CharAt(items[i].from + 2) = "/")
    /\ ScanFinished
         => Covered = {j \in 1..Len(source) : Significant(j)}

C25_Witness ==
    /\ source = <<"/", "/", "\n", "=">>
    /\ Len(items) = 2
    /\ items[1].item = Token(TokOperator("Equal"), [row |-> 2, col |-> 1])
    /\ items[2].item = NoItem

CursorBefore(i) == IF i = 1 THEN 0 ELSE items[i - 1].to

\* C29: every call of Scanner::next either returns None with the cursor at
\* the end of the source or moves the cursor forward; the cursor never goes
\* back nor past the end; after a None every call returns None; and the
\* source yields no more items than it has characters.
C29_ScanningTerminates ==
    /\ \A i \in 1..Len(items) :
         /\ CursorBefore(i) <= items[i].to
         /\ items[i].to <= Len(source)
         /\ CursorBefore(i) <= items[i].from
         /\ items[i].item = NoItem => items[i].to = Len(source)
         /\ items[i].item # NoItem => CursorBefore(i) < items[i].to
         /\ (i > 1 /\ items[i - 1].item = NoItem) => items[i].item = NoItem
    /\ Cardinality({i \in 1..Len(items) : items[i].item # NoItem})
         <= Len(source)
    /\ current.index = CursorBefore(Len(items) + 1)

C29_Witness ==
    /\ source = <<"a", "/", "/", "\"">>
    /\ Len(items) = 3
    /\ items[1].item.tag = "Tok"
    /\ items[2].item = NoItem
    /\ items[3].item = NoItem

(***************************************************************************)
(* Claim about the parser's lookahead, checked under SpecLook.             *)
(***************************************************************************)

\* the items advance has delivered that are not the end of the text
Delivered == SelectSeq(items, LAMBDA it : it # NoItem)

\* the item the scanner yields after k items
ScannerOutput(k) == IF k < Len(source) THEN scan_token(source[k + 1]) ELSE NoItem

\* the number of items in the buffer that the scanner made of a lexeme
Buffered == IF peeked.tag = "Full" /\ peeked.item # NoItem THEN 1 ELSE 0

\* C28: the buffer is empty or holds the one item that follows the delivered
\* ones; the delivered items are the scanner's items in order, none skipped
\* and none twice, the end of the text coming only after all of them; the
\* scanner has been read exactly as far as the delivered and buffered items;
\* peek returns the next item and leaves it in the buffer, so that a second
\* peek returns it again, and advance returns the item it delivered.
C28_LookaheadBuffer ==
    /\ peeked = Empty \/ peeked = Full(ScannerOutput(Len(Delivered)))
    /\ Len(Delivered) <= Len(source)
    /\ \A i \in 1..Len(Delivered) : Delivered[i] = ScannerOutput(i - 1)
    /\ \A i \in 1..Len(items) :
         items[i] = NoItem
           => /\ Len(Delivered) = Len(source)
              /\ \A j \in i..Len(items) : items[j] = NoItem
    /\ pos = Len(Delivered) + Buffered
    /\ (pc = "look" /\ value # NoResult /\ value.op = "peek")
         => /\ value.ret = ScannerOutput(Len(Delivered))
            /\ peeked = Full(value.ret)
            /\ peek(ParserState).item = value.ret
            /\ advance(ParserState).item = value.ret
            /\ advance(ParserState).ps.pos = pos
    /\ (pc = "look" /\ value # NoResult /\ value.op = "advance")
         => /\ items # <<>>
            /\ value.ret = items[Len(items)]
            /\ peeked = Empty

C28_Witness ==
    /\ pc = "look"
    /\ source = <<"1", ";">>
    /\ items = <<scan_token("1")>>
    /\ value = [op |-> "peek", ret |-> scan_token(";")]
    /\ peeked = Full(scan_token(";"))
    /\ pos = 2

(***************************************************************************)
(* Claims about the prompt and the command line, checked under SpecPrompt  *)
(* and SpecMain.                                                           *)
(***************************************************************************)

\* C27: the prompt loop ends only at the end of the input and then with
\* Ok(()): the error of a line never ends it.  (A failure of read_line
\* itself and a panic are not the error of a line.)
C27_PromptContinuesAfterError ==
    (/\ call.fn = "run_prompt"
     /\ pc = "done"
     /\ result # [tag |-> "Err", err |-> Io]
     /\ result # Panic)
      => /\ stdin = <<>>
         /\ result = [tag |-> "Ok"]

\* the arguments the user gave: args without the name of the program
UserArgs == Tail(args)

\* C30: main dispatches on the arguments after the program name: none runs
\* the prompt, one runs that script, more print the usage line and fail with
\* TooManyArgs.
C30_DispatchOnUserArguments ==
    (pc # "main" /\ args # <<>>)
      => /\ Len(UserArgs) = 0 => call = [fn |-> "run_prompt"]
         /\ Len(UserArgs) = 1
              => call = [fn |-> "run_file", path |-> UserArgs[1]]
         /\ Len(UserArgs) > 1
              => /\ call = NoCall
                 /\ stderr = <<"Usage: lox [script]">>
                 /\ result = [tag |-> "Err", err |-> TooManyArgs]

====
